---- MODULE Spec2Model ----
(***************************************************************************)
(* A model of autoeval: the shell-command security validator               *)
(* (security.py), the policy engine (policy.py), the action executor and   *)
(* the session controller (executor.py), the sub-task ledger (tracker.py,  *)
(* rpi.py), the evaluation suite (evals.py), the run controller            *)
(* (orchestrator.py) and the protocol client runtime (providers.py).       *)
(*                                                                         *)
(* Text is modelled as a sequence of one-character strings, so that the    *)
(* tokenising, splitting and substring tests of the source are computed    *)
(* and not assumed.  The characters used are letters, digits, the space,   *)
(* the two quote characters and the punctuation of the command fragments   *)
(* below; a backslash, a tab and a newline occur in no input.              *)
(***************************************************************************)
EXTENDS Integers, Sequences, FiniteSets, TLC

(***************************************************************************)
(* Python string primitives used by the source.                            *)
(***************************************************************************)
\* str.isspace for the one whitespace character of the inputs
IsSpace(c) == c = " "

\* the quote characters of shlex and of the ';' lookarounds
IsQuote(c) == c \in {"'", "\""}

\* s[i:] (1-based i)
DropTo(s, i) == SubSeq(s, i, Len(s))

\* str.startswith
startswith(s, p) == Len(p) <= Len(s) /\ SubSeq(s, 1, Len(p)) = p

\* str.endswith
endswith(s, p) == Len(p) <= Len(s) /\ SubSeq(s, Len(s) - Len(p) + 1, Len(s)) = p

\* `p in s` for strings
contains(s, p) == \E i \in 1..(Len(s) - Len(p) + 1) : SubSeq(s, i, i + Len(p) - 1) = p

\* str.count of a one-character string
count(s, c) == Cardinality({i \in 1..Len(s) : s[i] = c})

\* str.lstrip()
RECURSIVE lstrip(_)
lstrip(s) == IF s # <<>> /\ IsSpace(Head(s)) THEN lstrip(Tail(s)) ELSE s

\* str.rstrip()
RECURSIVE rstrip(_)
rstrip(s) == IF s # <<>> /\ IsSpace(s[Len(s)]) THEN rstrip(SubSeq(s, 1, Len(s) - 1)) ELSE s

\* str.strip()
strip(s) == lstrip(rstrip(s))

\* str.rstrip("/")
RECURSIVE rstrip_slash(_)
rstrip_slash(s) == IF s # <<>> /\ s[Len(s)] = "/" THEN rstrip_slash(SubSeq(s, 1, Len(s) - 1)) ELSE s

\* str.split(): the whitespace-separated words of s
RECURSIVE split_words(_, _, _)
split_words(s, cur, acc) ==
    IF s = <<>> THEN (IF cur = <<>> THEN acc ELSE Append(acc, cur))
    ELSE IF IsSpace(Head(s))
         THEN split_words(Tail(s), <<>>, IF cur = <<>> THEN acc ELSE Append(acc, cur))
         ELSE split_words(Tail(s), Append(cur, Head(s)), acc)

\* os.path.basename: what follows the last "/"
RECURSIVE basename(_)
basename(s) ==
    IF \E i \in 1..Len(s) : s[i] = "/"
    THEN basename(DropTo(s, (CHOOSE i \in 1..Len(s) : s[i] = "/") + 1))
    ELSE s

(***************************************************************************)
(* security.py                                                             *)
(***************************************************************************)
ValidationResult(allowed, reason) == [allowed |-> allowed, reason |-> reason, raised |-> FALSE]

\* an exception that leaves the validator instead of a ValidationResult
ValidationRaised(reason) == [allowed |-> FALSE, reason |-> reason, raised |-> TRUE]

ALLOWED_COMMANDS ==
    {<<"l","s">>,
     <<"c","a","t">>,
     <<"h","e","a","d">>,
     <<"t","a","i","l">>,
     <<"w","c">>,
     <<"g","r","e","p">>,
     <<"f","i","n","d">>,
     <<"c","p">>,
     <<"m","v">>,
     <<"m","k","d","i","r">>,
     <<"r","m">>,
     <<"t","o","u","c","h">>,
     <<"c","h","m","o","d">>,
     <<"u","n","z","i","p">>,
     <<"p","w","d">>,
     <<"c","d">>,
     <<"e","c","h","o">>,
     <<"p","r","i","n","t","f">>,
     <<"c","u","r","l">>,
     <<"w","h","i","c","h">>,
     <<"e","n","v">>,
     <<"p","y","t","h","o","n">>,
     <<"p","y","t","h","o","n","3">>,
     <<"n","p","m">>,
     <<"n","p","x">>,
     <<"n","o","d","e">>,
     <<"g","i","t">>,
     <<"p","s">>,
     <<"l","s","o","f">>,
     <<"s","l","e","e","p">>,
     <<"p","k","i","l","l">>,
     <<"i","n","i","t",".","s","h">>}

cmd_pkill == <<"p","k","i","l","l">>
cmd_chmod == <<"c","h","m","o","d">>
cmd_init_sh == <<"i","n","i","t",".","s","h">>
cmd_rm == <<"r","m">>

COMMANDS_NEEDING_EXTRA_VALIDATION == {cmd_pkill, cmd_chmod, cmd_init_sh, cmd_rm}

\* re.split(r"\s*(?:&&|\|\|)\s*", s): the pieces between the leftmost,
\* non-overlapping occurrences of && and ||, the whitespace next to an
\* operator removed
RECURSIVE split_and_or(_, _, _, _)
split_and_or(s, cur, acc, afterOp) ==
    IF s = <<>> THEN Append(acc, IF afterOp THEN lstrip(cur) ELSE cur)
    ELSE IF Len(s) >= 2 /\ s[1] = s[2] /\ s[1] \in {"&", "|"}
         THEN split_and_or(DropTo(s, 3), <<>>,
                           Append(acc, rstrip(IF afterOp THEN lstrip(cur) ELSE cur)), TRUE)
         ELSE split_and_or(Tail(s), Append(cur, Head(s)), acc, afterOp)

\* whether the ";" at position i of s is matched by
\* (?<!["\'])\s*;\s*(?!["\']): the character right before it and the
\* character right after it are no quotes (a whitespace run on either side
\* can always be entered or left one character short of a quote)
semicolon_splits(s, i) ==
    /\ s[i] = ";"
    /\ (i > 1 => ~IsQuote(s[i - 1]))
    /\ (i < Len(s) => ~IsQuote(s[i + 1]))

\* re.split(r'(?<!["\'])\s*;\s*(?!["\'])', s) followed by the strip() both
\* callers apply to every piece
RECURSIVE split_semicolon(_, _, _, _)
split_semicolon(s, i, cur, acc) ==
    IF i > Len(s) THEN Append(acc, strip(cur))
    ELSE IF semicolon_splits(s, i)
         THEN split_semicolon(s, i + 1, <<>>, Append(acc, strip(cur)))
         ELSE split_semicolon(s, i + 1, Append(cur, s[i]), acc)

NonEmpty(ss) == SelectSeq(ss, LAMBDA x : x # <<>>)

\* the sub-segments of each &&/|| segment, in order
RECURSIVE sub_segments(_)
sub_segments(segs) ==
    IF segs = <<>> THEN <<>>
    ELSE NonEmpty(split_semicolon(Head(segs), 1, <<>>, <<>>)) \o sub_segments(Tail(segs))

split_command_segments(command_string) ==
    sub_segments(split_and_or(command_string, <<>>, <<>>, FALSE))

\* shlex.split(s) in POSIX mode: whitespace separates tokens, a quote opens
\* a quoted part that runs to the same quote character, quotes are removed;
\* ok = FALSE is the ValueError of an unclosed quotation.
\* state: " " between tokens, "a" in a word, or the open quote character
RECURSIVE shlex_scan(_, _, _, _, _, _)
shlex_scan(s, i, state, token, started, acc) ==
    IF i > Len(s)
    THEN IF IsQuote(state) THEN [ok |-> FALSE, tokens |-> <<>>]
         ELSE [ok |-> TRUE, tokens |-> IF started THEN Append(acc, token) ELSE acc]
    ELSE IF IsQuote(state)
         THEN IF s[i] = state
              THEN shlex_scan(s, i + 1, "a", token, started, acc)
              ELSE shlex_scan(s, i + 1, state, Append(token, s[i]), started, acc)
         ELSE IF IsSpace(s[i])
              THEN shlex_scan(s, i + 1, " ", <<>>, FALSE,
                              IF started THEN Append(acc, token) ELSE acc)
              ELSE IF IsQuote(s[i])
                   THEN shlex_scan(s, i + 1, s[i], token, TRUE, acc)
                   ELSE shlex_scan(s, i + 1, "a", Append(token, s[i]), TRUE, acc)

shlex_split(s) == shlex_scan(s, 1, " ", <<>>, FALSE, <<>>)

CONTROL_TOKENS == {<<"|">>, <<"|","|">>, <<"&","&">>, <<"&">>}

SHELL_KEYWORDS ==
    {<<"i","f">>, <<"t","h","e","n">>, <<"e","l","s","e">>, <<"e","l","i","f">>,
     <<"f","i">>, <<"f","o","r">>, <<"w","h","i","l","e">>, <<"u","n","t","i","l">>,
     <<"d","o">>, <<"d","o","n","e">>, <<"c","a","s","e">>, <<"e","s","a","c">>,
     <<"i","n">>, <<"!">>, <<"{">>, <<"}">>}

\* the token loop of extract_commands over one segment's tokens
RECURSIVE scan_tokens(_, _, _)
scan_tokens(tokens, expect_command, commands) ==
    IF tokens = <<>> THEN commands
    ELSE LET token == Head(tokens) IN
         IF token \in CONTROL_TOKENS THEN scan_tokens(Tail(tokens), TRUE, commands)
         ELSE IF token \in SHELL_KEYWORDS THEN scan_tokens(Tail(tokens), expect_command, commands)
         ELSE IF startswith(token, <<"-">>) THEN scan_tokens(Tail(tokens), expect_command, commands)
         ELSE IF contains(token, <<"=">>) /\ ~startswith(token, <<"=">>)
              THEN scan_tokens(Tail(tokens), expect_command, commands)
         ELSE IF expect_command
              THEN scan_tokens(Tail(tokens), FALSE, Append(commands, basename(token)))
              ELSE scan_tokens(Tail(tokens), expect_command, commands)

\* the segment loop of extract_commands; an unparsable segment empties the
\* whole result
RECURSIVE extract_from_segments(_, _)
extract_from_segments(segments, commands) ==
    IF segments = <<>> THEN commands
    ELSE IF Head(segments) = <<>> THEN extract_from_segments(Tail(segments), commands)
    ELSE LET parsed == shlex_split(Head(segments)) IN
         IF ~parsed.ok THEN <<>>
         ELSE extract_from_segments(Tail(segments), scan_tokens(parsed.tokens, TRUE, commands))

extract_commands(command_string) ==
    extract_from_segments(split_semicolon(command_string, 1, <<>>, <<>>), <<>>)

allowed_process_names ==
    {<<"n","o","d","e">>, <<"n","p","m">>, <<"n","p","x">>, <<"v","i","t","e">>, <<"n","e","x","t">>}

NonFlags(tokens) == SelectSeq(tokens, LAMBDA t : ~startswith(t, <<"-">>))

validate_pkill_command(command_string) ==
    LET parsed == shlex_split(command_string) IN
    IF ~parsed.ok THEN ValidationResult(FALSE, "Could not parse pkill command")
    ELSE IF parsed.tokens = <<>> THEN ValidationResult(FALSE, "Empty pkill command")
    ELSE LET args == NonFlags(Tail(parsed.tokens)) IN
         IF args = <<>> THEN ValidationResult(FALSE, "pkill requires a process name")
         ELSE LET last == args[Len(args)]
                  words == split_words(last, <<>>, <<>>) IN
              IF contains(last, <<" ">>) /\ words = <<>>
              THEN ValidationRaised("IndexError")
              ELSE LET target == IF contains(last, <<" ">>) THEN words[1] ELSE last IN
                   IF target \in allowed_process_names THEN ValidationResult(TRUE, "")
                   ELSE ValidationResult(FALSE, "pkill only allowed for dev processes")

\* re.match(r"^[ugoa]*\+x$", mode)
chmod_mode_ok(mode) ==
    /\ Len(mode) >= 2
    /\ SubSeq(mode, Len(mode) - 1, Len(mode)) = <<"+", "x">>
    /\ \A i \in 1..(Len(mode) - 2) : mode[i] \in {"u", "g", "o", "a"}

validate_chmod_command(command_string) ==
    LET parsed == shlex_split(command_string) IN
    IF ~parsed.ok THEN ValidationResult(FALSE, "Could not parse chmod command")
    ELSE IF parsed.tokens = <<>> \/ Head(parsed.tokens) # cmd_chmod
         THEN ValidationResult(FALSE, "Not a chmod command")
    ELSE LET rest == Tail(parsed.tokens) IN
         IF \E i \in 1..Len(rest) : startswith(rest[i], <<"-">>)
         THEN ValidationResult(FALSE, "chmod flags are not allowed")
         ELSE IF rest = <<>> THEN ValidationResult(FALSE, "chmod requires a mode")
         ELSE IF Len(rest) = 1 THEN ValidationResult(FALSE, "chmod requires at least one file")
         ELSE IF ~chmod_mode_ok(rest[1])
              THEN ValidationResult(FALSE, "chmod only allowed with +x mode")
              ELSE ValidationResult(TRUE, "")

validate_init_script(command_string) ==
    LET parsed == shlex_split(command_string) IN
    IF ~parsed.ok THEN ValidationResult(FALSE, "Could not parse init script command")
    ELSE IF parsed.tokens = <<>> THEN ValidationResult(FALSE, "Empty command")
    ELSE LET script == Head(parsed.tokens) IN
         IF script = <<".","/","i","n","i","t",".","s","h">>
            \/ endswith(script, <<"/","i","n","i","t",".","s","h">>)
         THEN ValidationResult(TRUE, "")
         ELSE ValidationResult(FALSE, "Only ./init.sh is allowed")

dangerous_paths ==
    {<<"/">>,
     <<"/","e","t","c">>,
     <<"/","u","s","r">>,
     <<"/","v","a","r">>,
     <<"/","b","i","n">>,
     <<"/","s","b","i","n">>,
     <<"/","l","i","b">>,
     <<"/","o","p","t">>,
     <<"/","b","o","o","t">>,
     <<"/","r","o","o","t">>,
     <<"/","h","o","m","e">>,
     <<"/","U","s","e","r","s">>,
     <<"/","S","y","s","t","e","m">>,
     <<"/","L","i","b","r","a","r","y">>,
     <<"/","A","p","p","l","i","c","a","t","i","o","n","s">>,
     <<"/","p","r","i","v","a","t","e">>,
     <<"~">>}

\* the verdict of validate_rm_command's loop body on one path argument:
\* "" when the path passes
rm_path_verdict(path) ==
    LET stripped == rstrip_slash(path)
        normalized == IF stripped = <<>> THEN <<"/">> ELSE stripped IN
    IF normalized \in dangerous_paths THEN "rm on system directory is not allowed"
    ELSE IF \E dangerous \in dangerous_paths :
               /\ dangerous # <<"/">>
               /\ \/ normalized = dangerous
                  \/ /\ startswith(normalized, dangerous \o <<"/">>)
                     /\ count(normalized, "/") <= count(dangerous, "/") + 1
         THEN "rm too close to system directory is not allowed"
    ELSE IF path = <<"/", "*">> \/ startswith(path, <<"/", "*">>)
         THEN "rm on root wildcard is not allowed"
         ELSE ""

validate_rm_command(command_string) ==
    LET parsed == shlex_split(command_string) IN
    IF ~parsed.ok THEN ValidationResult(FALSE, "Could not parse rm command")
    ELSE IF parsed.tokens = <<>> \/ Head(parsed.tokens) # cmd_rm
         THEN ValidationResult(FALSE, "Not an rm command")
    ELSE LET paths == NonFlags(Tail(parsed.tokens)) IN
         IF paths = <<>> THEN ValidationResult(FALSE, "rm requires at least one path")
         ELSE IF \E i \in 1..Len(paths) : rm_path_verdict(paths[i]) # ""
              THEN LET first == CHOOSE i \in 1..Len(paths) :
                                   /\ rm_path_verdict(paths[i]) # ""
                                   /\ \A j \in 1..(i - 1) : rm_path_verdict(paths[j]) = ""
                   IN ValidationResult(FALSE, rm_path_verdict(paths[first]))
              ELSE ValidationResult(TRUE, "")

\* the first segment in which cmd is an extracted command, "" when none
RECURSIVE get_command_for_validation(_, _)
get_command_for_validation(cmd, segments) ==
    IF segments = <<>> THEN <<>>
    ELSE IF \E i \in 1..Len(extract_commands(Head(segments))) :
               extract_commands(Head(segments))[i] = cmd
         THEN Head(segments)
         ELSE get_command_for_validation(cmd, Tail(segments))

\* the structural check validate_command selects for cmd
extra_validation(cmd, cmd_segment) ==
    IF cmd = cmd_pkill THEN validate_pkill_command(cmd_segment)
    ELSE IF cmd = cmd_chmod THEN validate_chmod_command(cmd_segment)
    ELSE IF cmd = cmd_init_sh THEN validate_init_script(cmd_segment)
    ELSE validate_rm_command(cmd_segment)

\* the loop of validate_command without its allow-list test
RECURSIVE validate_each_unlisted(_, _, _)
validate_each_unlisted(commands, segments, command) ==
    IF commands = <<>> THEN ValidationResult(TRUE, "")
    ELSE LET cmd == Head(commands) IN
         IF cmd \in COMMANDS_NEEDING_EXTRA_VALIDATION
         THEN LET found == get_command_for_validation(cmd, segments)
                  cmd_segment == IF found # <<>> THEN found ELSE command
                  result == extra_validation(cmd, cmd_segment)
              IN IF ~result.allowed THEN result
                 ELSE validate_each_unlisted(Tail(commands), segments, command)
         ELSE validate_each_unlisted(Tail(commands), segments, command)

\* the loop of validate_command over the extracted commands
RECURSIVE validate_each(_, _, _)
validate_each(commands, segments, command) ==
    IF commands = <<>> THEN ValidationResult(TRUE, "")
    ELSE LET cmd == Head(commands) IN
         IF cmd \notin ALLOWED_COMMANDS
         THEN ValidationResult(FALSE, "Command is not in the allowed commands list")
         ELSE IF cmd \in COMMANDS_NEEDING_EXTRA_VALIDATION
              THEN LET found == get_command_for_validation(cmd, segments)
                       cmd_segment == IF found # <<>> THEN found ELSE command
                       result == extra_validation(cmd, cmd_segment)
                   IN IF ~result.allowed THEN result
                      ELSE validate_each(Tail(commands), segments, command)
              ELSE validate_each(Tail(commands), segments, command)

validate_command(command) ==
    LET commands == extract_commands(command) IN
    IF commands = <<>>
    THEN ValidationResult(FALSE, "Could not parse command for security validation")
    ELSE validate_each(commands, split_command_segments(command), command)

(***************************************************************************)
(* State.  Files of the repository and of the run directory are the        *)
(* persistent part; the locals of run_task and of execute_session live     *)
(* while the call they belong to is on the stack.                          *)
(***************************************************************************)
VARIABLES
    \* SecurityValidator under test: the input, the extracted commands, the verdict
    sec_command, sec_commands, sec_result, sec_pc,
    \* PolicyEngine.evaluate under test: the contract, the request, whether a
    \* runtime approver is configured and what it answers, the verdict
    pol_envelope, pol_request, pol_approver, pol_response, pol_verdict, pol_pc,
    \* _CodexProtocolRuntime, one connection: where the client waits, its id
    \* counter, the id and method of the pending request, the thread and turn
    \* ids, run_turn's notifications (their methods), last agent message and
    \* token usage, how the call ended, and the state of the app-server child
    \* process
    rpc_stage, rpc_next_id, rpc_request, rpc_thread_id, rpc_turn_id,
    rpc_notifications, rpc_last_agent_message, rpc_token_usage, rpc_outcome, rpc_proc,
    \* observation: the request numbers issued so far, the number of messages
    \* dequeued, what the last dequeue did, and the latest agent message and
    \* usage snapshot among the notifications that reached the history between
    \* the sending of turn/start and the end of the turn
    rpc_issued, rpc_steps, rpc_last, rpc_heard,
    \* the pipe to the child's stdin: the lines written that the child has not
    \* read, and where the client goes on once a write that found the pipe
    \* full has gone through
    rpc_pipe, rpc_resume,
    \* the child's stdout: what the child has written that _read_stdout has
    \* not read (the end of the stream is its last item), and the queue that
    \* _read_stdout fills and _dequeue empties
    rpc_stdout, rpc_queue,
    \* fork_run under test: the directories under runs/ by run id, state.json's
    \* last_run_id, and how the call ended
    fork_runs, fork_last_run_id, fork_outcome,
    \* observation: the arguments of the last fork_run call, runs/ before it,
    \* and the number of calls
    fork_call, fork_before, fork_count,
    \* init_rpi_artifacts under test: the legacy directory .autoeval/rpi and
    \* the dict the call returned
    rpi_legacy, rpi_outputs,
    \* observation: the three files and the legacy directory before the last
    \* call, and the number of calls
    rpi_before, rpi_calls,
    \* .autoeval/instructions: research.md, plan.md, feature_list.json
    research, plan, ledger,
    \* runs/<run_id>: session_meta.json's session_count, the event trail
    \* (kinds of the records of earlier calls, then the records appended
    \* since the current call began), the audit logs, metrics.json,
    \* evals/report.json
    session_count, trail, events, slack_log, github_log, metrics, eval_report,
    \* observation: the session numbers of the session_started records that
    \* events.jsonl holds, in the order they were appended
    started,
    \* runs/<run_id>/usage.json
    usage_file,
    \* run_task: position, parameters and locals; how the last call ended
    pc, max_sessions, runtime_approver, no_progress, stuck_count, sessions,
    before_done, outcome, resumes,
    \* execute_session: locals
    session_number, task_envelope, bootstrap_pending, ledger_at_start,
    action_results, completed_ids, claimed_ids, session_result,
    \* observation: the requests handed to _execute_action in this session,
    \* and for each session of this invocation whether it left the done
    \* count unchanged
    handler_calls, progress_log

secVars == <<sec_command, sec_commands, sec_result, sec_pc>>
polVars == <<pol_envelope, pol_request, pol_approver, pol_response, pol_verdict, pol_pc>>
rpcVars == <<rpc_stage, rpc_next_id, rpc_request, rpc_thread_id, rpc_turn_id,
             rpc_notifications, rpc_last_agent_message, rpc_token_usage, rpc_outcome,
             rpc_proc, rpc_issued, rpc_steps, rpc_last, rpc_heard, rpc_pipe, rpc_resume,
             rpc_stdout, rpc_queue>>
forkVars == <<fork_runs, fork_last_run_id, fork_outcome, fork_call, fork_before, fork_count>>
rpiVars == <<rpi_legacy, rpi_outputs, rpi_before, rpi_calls>>
unitVars == <<forkVars, rpiVars>>
diskVars == <<research, plan, ledger, session_count, trail, started, usage_file, events,
              slack_log,
              github_log, metrics, eval_report>>
runVars == <<pc, max_sessions, runtime_approver, no_progress, stuck_count, sessions,
             before_done, outcome, resumes, progress_log>>
sessionVars == <<session_number, task_envelope, bootstrap_pending, ledger_at_start,
                 action_results, completed_ids, claimed_ids, session_result,
                 handler_calls>>
vars == <<secVars, polVars, rpcVars, unitVars, diskVars, runVars, sessionVars>>

(***************************************************************************)
(* agent_contract.py                                                       *)
(***************************************************************************)
\* None, where a string is expected
None == "<None>"

\* None, where text (a command) is expected
NoneText == <<"<None>">>

\* str(value) of a text parameter
str(value) == IF value = NoneText THEN <<"N","o","n","e">> ELSE value

\* dict.get(key, default)
Get(map, key, default) == IF key \in DOMAIN map THEN map[key] ELSE default

\* the empty dict
EmptyMap == [k \in {} |-> None]

AllowedAction(type, selectors) == [type |-> type, selectors |-> selectors]

default_allowed_actions ==
    <<AllowedAction("read_file", {}),
      AllowedAction("write_file", {}),
      AllowedAction("propose_patch", {}),
      AllowedAction("run", {"build", "test", "cmd"}),
      AllowedAction("mcp_call", {}),
      AllowedAction("notify", {"slack"}),
      AllowedAction("github", {"commit", "create_pr", "push"})>>

max_runtime_sec_default == 900

TaskConstraints ==
    [no_network |-> TRUE, max_runtime_sec |-> max_runtime_sec_default,
     allow_repo_edits |-> TRUE]

build_task_envelope(session_no, pending) ==
    [session_number |-> session_no,
     constraints |-> TaskConstraints,
     allowed_actions |-> default_allowed_actions,
     rpi_bootstrap_pending |-> pending]

ActionRequest(action_id, type, selector, parameters) ==
    [action_id |-> action_id, type |-> type, selector |-> selector,
     parameters |-> parameters]

\* a PolicyDecision whose verification flag is set on runtime decisions only
PolicyDecision_static_final(allowed, reason, policy_stage, runtime_approval_required) ==
    [allowed |-> allowed, reason |-> reason, policy_stage |-> policy_stage,
     needs_orchestrator_verification |-> (policy_stage = "runtime"),
     runtime_approval_required |-> runtime_approval_required,
     metadata |-> [mutated_parameters |-> {}]]

\* PolicyDecision as evaluate constructs it: each of its five return
\* statements passes needs_orchestrator_verification=True
PolicyDecision(allowed, reason, policy_stage, runtime_approval_required) ==
    [allowed |-> allowed, reason |-> reason, policy_stage |-> policy_stage,
     needs_orchestrator_verification |-> TRUE,
     runtime_approval_required |-> runtime_approval_required,
     metadata |-> [mutated_parameters |-> {}]]

(***************************************************************************)
(* policy.py                                                               *)
(***************************************************************************)
\* the high-risk set widened to every action that changes something
HIGH_RISK_ACTIONS_with_writes == {"run", "cmd", "mcp_call", "github", "write_file"}

HIGH_RISK_ACTIONS == {"run", "cmd", "mcp_call", "github"}

NETWORK_TOKENS ==
    {<<"h","t","t","p",":","/","/">>,
     <<"h","t","t","p","s",":","/","/">>,
     <<"c","u","r","l"," ">>,
     <<"w","g","e","t"," ">>,
     <<"p","i","p"," ","i","n","s","t","a","l","l">>,
     <<"n","p","m"," ","i","n","s","t","a","l","l">>}

\* str.lower(), on the upper-case letters the inputs use
LowerChar(c) ==
    CASE c = "C" -> "c" [] c = "U" -> "u" [] c = "R" -> "r" [] c = "L" -> "l"
      [] c = "M" -> "m" [] c = "F" -> "f"
      [] OTHER -> c

lower(s) == [i \in 1..Len(s) |-> LowerChar(s[i])]

\* a selector that is neither None nor empty
Truthy(selector) == selector # None /\ selector # ""

\* _allowed_action matching every request
allowed_action_any(envelope, request) == <<TRUE, "action allowed by task envelope">>

allowed_action(envelope, request) ==
    IF \E i \in 1..Len(envelope.allowed_actions) :
          LET action == envelope.allowed_actions[i] IN
          /\ action.type = request.type
          /\ ~(action.selectors # {} /\ Truthy(request.selector)
               /\ request.selector \notin action.selectors)
    THEN <<TRUE, "action allowed by task envelope">>
    ELSE <<FALSE, "action type not allowed">>

network_violation(envelope, request) ==
    IF ~envelope.constraints.no_network THEN None
    ELSE LET cmd == lower(str(Get(request.parameters, "cmd", <<>>))) IN
         IF \E token \in NETWORK_TOKENS : contains(cmd, token)
         THEN "network command blocked by no_network constraint"
         ELSE None

\* _repo_edit_violation that forgets propose_patch
repo_edit_violation_write_only(envelope, request) ==
    IF request.type = "write_file" /\ ~envelope.constraints.allow_repo_edits
    THEN "repo edits blocked by allow_repo_edits=false"
    ELSE None

repo_edit_violation(envelope, request) ==
    IF request.type \in {"write_file", "propose_patch"}
       /\ ~envelope.constraints.allow_repo_edits
    THEN "repo edits blocked by allow_repo_edits=false"
    ELSE None

\* an update that replaces the parameters by the mutation
merge_parameters_replace(parameters, mutation) ==
    IF mutation = EmptyMap THEN parameters ELSE mutation

\* if mutation: request.parameters.update(mutation)
merge_parameters(parameters, mutation) == mutation @@ parameters

\* PolicyEngine.evaluate.  approver is "none" or "configured"; response is
\* what the configured callback answers when it is invoked.  The result
\* carries the decision, the request's parameters after the call and the
\* number of times the callback was invoked.
evaluate(envelope, request, approver, response) ==
    LET static(allowed, reason, required) ==
            [decision |-> PolicyDecision(allowed, reason, "static", required),
             parameters |-> request.parameters, approver_calls |-> 0]
        allowed_reason == allowed_action(envelope, request)
        runtime_required == request.type \in HIGH_RISK_ACTIONS
        mutation == IF response.kind = "dict" THEN response.mutated_parameters
                    ELSE EmptyMap
        runtime_reason == IF response.kind = "bool" THEN "runtime approver decision"
                          ELSE response.reason
    IN
    IF ~allowed_reason[1] THEN static(FALSE, allowed_reason[2], FALSE)
    ELSE IF repo_edit_violation(envelope, request) # None
         THEN static(FALSE, repo_edit_violation(envelope, request), FALSE)
    ELSE IF network_violation(envelope, request) # None
         THEN static(FALSE, network_violation(envelope, request), FALSE)
    ELSE IF ~runtime_required \/ approver = "none"
         THEN static(TRUE, "approved by static policy", runtime_required)
    ELSE [decision |-> [PolicyDecision(response.allowed, runtime_reason, "runtime", TRUE)
                            EXCEPT !.metadata = [mutated_parameters |-> DOMAIN mutation]],
          parameters |-> merge_parameters(request.parameters, mutation),
          approver_calls |-> 1]

(***************************************************************************)
(* executor.py: the action executor                                        *)
(***************************************************************************)
DANGEROUS_RUN_PATTERNS ==
    {<<"r","m"," ","-","r","f"," ","/">>,
     <<"m","k","f","s">>,
     <<"s","h","u","t","d","o","w","n">>,
     <<"r","e","b","o","o","t">>,
     <<":","(",")","{",":","|",":","&","}",";",":">>}

RUN_SELECTOR_ALLOWLIST == {"build", "test", "cmd"}

\* _resolve_repo_path: a relative path is a sequence of components; depth is
\* the number of directories below the repository root after each component,
\* and the resolved path leaves the repository once ".." climbs above the root
RECURSIVE path_depth(_, _)
path_depth(components, depth) ==
    IF components = <<>> THEN depth
    ELSE IF depth < 0 THEN depth
    ELSE IF Head(components) = ".." THEN path_depth(Tail(components), depth - 1)
    ELSE path_depth(Tail(components), depth + 1)

inside_repository(rel_path) == path_depth(rel_path, 0) >= 0

ActionResult(action_id, status, output, error) ==
    [action_id |-> action_id, status |-> status, output |-> output, error |-> error,
     started_at |-> TRUE, finished_at |-> TRUE]

\* _run_shell_command without the call of the Security Validator
run_shell_command_unvalidated(cmd, proc) ==
    IF \E pattern \in DANGEROUS_RUN_PATTERNS : contains(lower(cmd), pattern)
    THEN [raised |-> TRUE, error |-> "blocked dangerous command pattern",
          status |-> None, spawned |-> FALSE, stdout |-> None]
    ELSE [raised |-> FALSE, error |-> None, status |-> proc, spawned |-> TRUE,
          stdout |-> IF proc = "timeout" THEN "" ELSE "captured"]

\* _run_shell_command.  proc is what the child process does once spawned:
\* "completed" (exit 0), "failed" (another exit code) or "timeout".
\* raised = TRUE is the ValueError (or the validator's own exception) that
\* leaves the function before a child is spawned.  stdout is what the returned
\* dict keeps of the child's output: "captured" (proc.stdout, truncated) or
\* "" (the TimeoutExpired branch drops what was captured).
run_shell_command(cmd, proc) ==
    IF \E pattern \in DANGEROUS_RUN_PATTERNS : contains(lower(cmd), pattern)
    THEN [raised |-> TRUE, error |-> "blocked dangerous command pattern",
          status |-> None, spawned |-> FALSE, stdout |-> None]
    ELSE LET validation == validate_command(cmd) IN
         IF validation.raised
         THEN [raised |-> TRUE, error |-> validation.reason, status |-> None,
               spawned |-> FALSE, stdout |-> None]
         ELSE IF ~validation.allowed
         THEN [raised |-> TRUE, error |-> "blocked by security policy",
               status |-> None, spawned |-> FALSE, stdout |-> None]
         ELSE [raised |-> FALSE, error |-> None, status |-> proc, spawned |-> TRUE,
               stdout |-> IF proc = "timeout" THEN "" ELSE "captured"]

\* the except branch that loses the failure: the result stays completed
Failed_swallowed(request, error) ==
    ActionResult(request.action_id, "completed", [kind |-> "none"], None)

\* the except branch of _execute_action
Failed(request, error) == ActionResult(request.action_id, "failed", [kind |-> "none"], error)

Completed(request, output) == ActionResult(request.action_id, "completed", output, None)

\* A number among a request's parameters, kept in tenths: Seconds(5) is 5 and
\* Tenths(59) is 5.9.  A parameter that is no number is [text |-> ...].
Tenths(tenths) == [tenths |-> tenths]

Seconds(seconds) == Tenths(10 * seconds)

IsNumber(value) == "tenths" \in DOMAIN value

\* int(value) of a number: its integer part, truncated toward zero
int(value) ==
    IF value.tenths >= 0 THEN value.tenths \div 10 ELSE -((-value.tenths) \div 10)

\* the timeout without its floor: min(requested_timeout, max_runtime_sec)
timeout_sec_unfloored(requested_timeout, max_runtime_sec) ==
    IF requested_timeout < max_runtime_sec THEN requested_timeout ELSE max_runtime_sec

\* timeout_sec = max(1, min(requested_timeout, max_runtime_sec))
timeout_sec(requested_timeout, max_runtime_sec) ==
    LET lesser == IF requested_timeout < max_runtime_sec THEN requested_timeout
                  ELSE max_runtime_sec
    IN IF lesser > 1 THEN lesser ELSE 1

\* _execute_action: the ActionResult for an approved request
execute_action(request, max_runtime_sec, env) ==
    LET parameters == request.parameters IN
    CASE request.type \in {"read_file", "write_file"} ->
           IF ~inside_repository(Get(parameters, "path", <<>>))
           THEN Failed(request, "path is outside repository boundary")
           ELSE IF ~env.io_ok THEN Failed(request, "OSError")
           ELSE Completed(request, [kind |-> request.type])
      [] request.type = "run" ->
           LET selector == IF Truthy(request.selector) THEN request.selector
                           ELSE Get(parameters, "selector", "cmd")
               cmd == strip(str(Get(parameters, "cmd", <<>>)))
               requested_timeout == IF "timeout_sec" \in DOMAIN parameters
                                    THEN int(parameters.timeout_sec)
                                    ELSE max_runtime_sec
               result == run_shell_command(cmd, env.proc)
           IN
           IF selector \notin RUN_SELECTOR_ALLOWLIST
           THEN Failed(request, "unsupported run selector")
           ELSE IF cmd = <<>> THEN Failed(request, "run action requires non-empty cmd")
           ELSE IF "timeout_sec" \in DOMAIN parameters /\ ~IsNumber(parameters.timeout_sec)
           THEN Failed(request, "invalid literal for int()")
           ELSE IF result.raised THEN Failed(request, result.error)
           ELSE ActionResult(request.action_id,
                             IF result.status # "completed" THEN "failed" ELSE "completed",
                             [kind |-> "run", selector |-> selector, cmd |-> cmd,
                              status |-> result.status,
                              timeout_sec |-> timeout_sec(requested_timeout, max_runtime_sec),
                              stdout |-> result.stdout],
                             None)
      [] request.type = "propose_patch" -> Completed(request, [kind |-> "propose_patch"])
      [] request.type = "mcp_call" ->
           IF ~env.collaborator_ok THEN Failed(request, "collaborator error")
           ELSE Completed(request,
                  [kind |-> "mcp_call",
                   slack_notification |->
                       (Get(parameters, "namespace", "") = "slack"
                        /\ Get(parameters, "message", "") \notin {"", None})])
      [] request.type = "notify" ->
           IF Get(parameters, "message", "") = ""
           THEN Failed(request, "notify action requires a non-empty message")
           ELSE IF ~env.collaborator_ok THEN Failed(request, "collaborator error")
           ELSE Completed(request, [kind |-> "notify"])
      [] request.type = "github" ->
           IF Get(parameters, "summary", "") = ""
           THEN Failed(request, "github action requires a non-empty summary")
           ELSE IF ~env.collaborator_ok THEN Failed(request, "collaborator error")
           ELSE Completed(request, [kind |-> "github"])
      [] OTHER -> Completed(request, [kind |-> "no-op"])

\* record_slack_notification has appended to communications/slack_messages.jsonl
writes_slack(result) ==
    /\ result.status = "completed"
    /\ \/ result.output.kind = "notify"
       \/ result.output.kind = "mcp_call" /\ result.output.slack_notification

\* record_github_operation has appended to vcs/github_operations.jsonl
writes_github(result) == result.status = "completed" /\ result.output.kind = "github"

(***************************************************************************)
(* tracker.py and rpi.py: the sub-task ledger and the planning artifacts   *)
(***************************************************************************)
SubTask(id, phase_id, phase, description, criteria, status) ==
    [id |-> id, phase_id |-> phase_id, phase |-> phase,
     sub_task_description |-> description, criteria |-> criteria, status |-> status]

\* _default_feature_list()["sub_tasks"]
default_sub_tasks ==
    <<SubTask("research_baseline", "phase_0", "Research",
              "Establish repository baseline and execution constraints",
              <<"Research artifact captures system architecture",
                "Known risks and unknowns are listed">>, FALSE),
      SubTask("plan_decomposition", "phase_1", "Planning",
              "Break request into phased, testable implementation milestones",
              <<"Plan defines ordered phases", "Plan includes test strategy">>, FALSE),
      SubTask("implementation_execution", "phase_2", "Implementation",
              "Execute scoped code and configuration changes",
              <<"Changes are mapped to planned subtasks",
                "Any required tooling/integration setup is documented">>, FALSE),
      SubTask("verification_and_handoff", "phase_3", "Validation",
              "Validate outcomes and prepare handoff artifacts",
              <<"Automated and/or manual validations are attached",
                "Final summary includes remaining gaps">>, FALSE)>>

\* feature_list.json: absent, or a payload with its sub_tasks
NoLedger == [exists |-> FALSE, sub_tasks |-> <<>>]

LedgerOf(sub_tasks) == [exists |-> TRUE, sub_tasks |-> sub_tasks]

\* load_feature_list(feature_file)["sub_tasks"]
load_feature_list(ledger_file) == IF ledger_file.exists THEN ledger_file.sub_tasks ELSE <<>>

IMMUTABLE_FIELDS == {"phase", "sub_task_description", "criteria"}

\* assert_status_only_mutation: TRUE when it returns, FALSE when it raises
status_only_mutation(before, after) ==
    /\ [i \in 1..Len(before) |-> before[i].id] = [i \in 1..Len(after) |-> after[i].id]
    /\ \A i \in 1..Len(before) :
          LET old == before[i]
              new == CHOOSE t \in {after[j] : j \in 1..Len(after)} : t.id = old.id
          IN /\ \A field \in IMMUTABLE_FIELDS : old[field] = new[field]
             /\ DOMAIN old \ {"status"} = DOMAIN new \ {"status"}

\* whether update_sub_task_status finds task_id
known_sub_task(sub_tasks, task_id) == \E i \in 1..Len(sub_tasks) : sub_tasks[i].id = task_id

\* update_sub_task_status(feature_file, task_id, status) for a known id:
\* the first task with that id gets the status
update_sub_task_status(sub_tasks, task_id, status) ==
    LET first == CHOOSE i \in 1..Len(sub_tasks) :
                     /\ sub_tasks[i].id = task_id
                     /\ \A j \in 1..(i - 1) : sub_tasks[j].id # task_id
    IN [sub_tasks EXCEPT ![first].status = status]

\* all_completed that is content with one finished sub-task
all_completed_some(ledger_file) ==
    LET tasks == load_feature_list(ledger_file) IN
    tasks # <<>> /\ \E i \in 1..Len(tasks) : tasks[i].status

all_completed(ledger_file) ==
    LET tasks == load_feature_list(ledger_file) IN
    tasks # <<>> /\ \A i \in 1..Len(tasks) : tasks[i].status

\* completion_counts: <<done, total>>
completion_counts(ledger_file) ==
    LET tasks == load_feature_list(ledger_file) IN
    <<Cardinality({i \in 1..Len(tasks) : tasks[i].status}), Len(tasks)>>

\* phase_id.replace("_", " ").title(), on the phase ids _normalize_feature_task
\* generates
title_of(phase_id) ==
    CASE phase_id = "phase_1" -> "Phase 1"
      [] phase_id = "phase_2" -> "Phase 2"
      [] phase_id = "phase_3" -> "Phase 3"
      [] OTHER -> "Title(" \o phase_id \o ")"

\* _normalize_feature_task(raw, index), index counted from 1 here; raw is a
\* dict that may lack keys
normalize_feature_task(raw, index) ==
    LET task_id == IF Get(raw, "id", "") # "" THEN raw.id
                   ELSE "phase_" \o ToString(index) \o "_subtask_" \o ToString(index)
        phase_id == IF Get(raw, "phase_id", "") # "" THEN raw.phase_id
                    ELSE "phase_" \o ToString(index)
        phase == IF Get(raw, "phase", "") # "" THEN raw.phase ELSE title_of(phase_id)
        description == IF Get(raw, "sub_task_description", "") # ""
                       THEN raw.sub_task_description
                       ELSE "Execute " \o task_id
        listed == SelectSeq(Get(raw, "criteria", <<>>), LAMBDA item : item # "")
        criteria == IF listed # <<>> THEN listed
                    ELSE <<"Evidence recorded for " \o task_id>>
    IN SubTask(task_id, phase_id, phase, description, criteria, Get(raw, "status", FALSE))

\* _normalize_feature_payload(payload)["sub_tasks"]
normalize_feature_payload(raw_tasks) ==
    [i \in 1..Len(raw_tasks) |-> normalize_feature_task(raw_tasks[i], i)]

is_default_feature_payload(tasks) ==
    /\ Len(tasks) = Len(default_sub_tasks)
    /\ \A i \in 1..Len(tasks) :
          \E j \in 1..Len(default_sub_tasks) :
              LET default == default_sub_tasks[j] IN
              /\ tasks[i].id = default.id
              /\ \A field \in {"phase_id", "phase", "sub_task_description", "criteria"} :
                     tasks[i][field] = default[field]

\* research.md and plan.md are "absent", "pending" (the placeholder that
\* init_rpi_artifacts renders, carrying the awaiting_provider_bootstrap
\* marker) or "generated" (text committed from a provider response)
needs_rpi_bootstrap(research_file, plan_file, ledger_file) ==
    IF research_file = "absent" \/ plan_file = "absent" \/ ~ledger_file.exists THEN TRUE
    ELSE IF research_file = "pending" THEN TRUE
    ELSE IF plan_file = "pending" THEN TRUE
    ELSE is_default_feature_payload(load_feature_list(ledger_file))

is_rpi_initialized(research_file, plan_file, ledger_file) ==
    research_file # "absent" /\ plan_file # "absent" /\ ledger_file.exists

\* the legacy directory .autoeval/rpi and the artifacts it holds
NoLegacy == [exists |-> FALSE, research |-> "absent", plan |-> "absent", ledger |-> NoLedger]

LegacyOf(research_file, plan_file, ledger_file) ==
    [exists |-> TRUE, research |-> research_file, plan |-> plan_file, ledger |-> ledger_file]

\* _cleanup_legacy_rpi_layout(paths, migrate): the three files afterwards; a
\* legacy file moves only where the instruction directory has none, and the
\* legacy directory is removed in every case
cleanup_legacy_rpi_layout(research_file, plan_file, ledger_file, legacy, migrate) ==
    [research |-> IF migrate /\ legacy.exists /\ legacy.research # "absent"
                     /\ research_file = "absent"
                  THEN legacy.research ELSE research_file,
     plan |-> IF migrate /\ legacy.exists /\ legacy.plan # "absent" /\ plan_file = "absent"
              THEN legacy.plan ELSE plan_file,
     ledger |-> IF migrate /\ legacy.exists /\ legacy.ledger.exists /\ ~ledger_file.exists
                THEN legacy.ledger ELSE ledger_file,
     legacy |-> NoLegacy]

\* the body of init_rpi_artifacts after the cleanup (lines 329-356)
init_files_forced(files, force) ==
    [research |-> "pending", plan |-> "pending", ledger |-> LedgerOf(default_sub_tasks),
     legacy |-> files.legacy,
     created |-> <<"research.md", "plan.md", "feature_list.json">>, skipped |-> <<>>]

init_files(files, force) ==
    [research |-> IF force \/ files.research = "absent" THEN "pending" ELSE files.research,
     plan |-> IF force \/ files.plan = "absent" THEN "pending" ELSE files.plan,
     ledger |-> IF force \/ ~files.ledger.exists
                THEN LedgerOf(default_sub_tasks) ELSE files.ledger,
     legacy |-> files.legacy,
     created |-> (IF force \/ files.research = "absent" THEN <<"research.md">> ELSE <<>>)
                 \o (IF force \/ files.plan = "absent" THEN <<"plan.md">> ELSE <<>>)
                 \o (IF force \/ ~files.ledger.exists THEN <<"feature_list.json">> ELSE <<>>),
     skipped |-> (IF force \/ files.research = "absent" THEN <<>> ELSE <<"research.md">>)
                 \o (IF force \/ files.plan = "absent" THEN <<>> ELSE <<"plan.md">>)
                 \o (IF force \/ ~files.ledger.exists THEN <<>> ELSE <<"feature_list.json">>)]

\* init_rpi_artifacts(paths, task, force): what each file holds afterwards,
\* what is left of the legacy directory, and the created and skipped lists
init_rpi_artifacts(research_file, plan_file, ledger_file, legacy, force) ==
    init_files(cleanup_legacy_rpi_layout(research_file, plan_file, ledger_file, legacy, ~force),
               force)

\* no feature_list in a provider's rpi_artifacts (null)
NoFeatureList == <<[absent |-> TRUE]>>

\* _normalize_markdown(value) is non-empty; a None value is not a str
writes_markdown(value) == value # NoneText /\ strip(value) # <<>>

\* commit_rpi_artifacts(paths, payload): the files afterwards and the list
\* of files written
commit_rpi_artifacts(research_file, plan_file, ledger_file, payload) ==
    [research |-> IF writes_markdown(payload.research) THEN "generated" ELSE research_file,
     plan |-> IF writes_markdown(payload.plan) THEN "generated" ELSE plan_file,
     ledger |-> IF payload.feature_list # NoFeatureList
                THEN LedgerOf(normalize_feature_payload(payload.feature_list))
                ELSE ledger_file,
     written |-> (IF writes_markdown(payload.research) THEN <<"research.md">> ELSE <<>>)
                 \o (IF writes_markdown(payload.plan) THEN <<"plan.md">> ELSE <<>>)
                 \o (IF payload.feature_list # NoFeatureList
                     THEN <<"feature_list.json">> ELSE <<>>)]

(***************************************************************************)
(* evals.py and orchestrator._write_metrics                                *)
(***************************************************************************)
\* the kind of a record of events.jsonl: its type and, for an action_result,
\* the result's status
KindOf(event) ==
    <<event.type, IF event.type = "action_result" THEN event.result.status ELSE "">>

\* the record types _check_action_lifecycle and _check_failed_actions count;
\* nothing else is read back from events.jsonl
COUNTED_TYPES == {"action_requested", "action_result", "session_finished",
                  "provider_subagent_plan"}

\* the kinds of the records that are read back
Kinds(records) ==
    {KindOf(records[i]) : i \in {j \in 1..Len(records) : records[j].type \in COUNTED_TYPES}}

CheckResult(id, passed) == [id |-> id, passed |-> passed]

\* _check_required_artifacts: events.jsonl, progress.md, session_meta.json
\* and usage.json exist once a session of the run has finished
check_required_artifacts(finished_sessions) ==
    CheckResult("required_artifacts", finished_sessions >= 1)

check_action_lifecycle(kinds) ==
    CheckResult("action_lifecycle",
                \A type \in COUNTED_TYPES : \E kind \in kinds : kind[1] = type)

check_feature_completion(ledger_file) ==
    LET counts == completion_counts(ledger_file) IN
    CheckResult("feature_completion", counts[2] > 0 /\ counts[1] = counts[2])

check_failed_actions(kinds) ==
    CheckResult("no_failed_actions",
                ~\E kind \in kinds : kind[1] = "action_result" /\ kind[2] \in {"failed", "denied"})

check_reference_artifacts(has_slack, has_github) ==
    CheckResult("reference_artifacts", has_slack /\ has_github)

\* an extra check passed to run_task: the function's __name__ and what a
\* call of it does ("pass", "fail" or "raise")
EvalCheck(name, behaviour) == [name |-> name, behaviour |-> behaviour]

\* the try/except of run_eval_suite around one extra check, normalised
run_extra_check(check) ==
    IF check.behaviour = "raise" THEN CheckResult(check.name, FALSE)
    ELSE CheckResult(check.name, check.behaviour = "pass")

NoReport == [written |-> FALSE]

\* run_eval_suite: the report written to evals/report.json and returned
run_eval_suite(ledger_file, kinds, finished_sessions, has_slack, has_github, profile, extra_checks) ==
    LET results == <<check_required_artifacts(finished_sessions),
                     check_action_lifecycle(kinds),
                     check_feature_completion(ledger_file),
                     check_failed_actions(kinds),
                     check_reference_artifacts(has_slack, has_github)>>
                   \o [i \in 1..Len(extra_checks) |-> run_extra_check(extra_checks[i])]
        failures == SelectSeq(results, LAMBDA item : ~item.passed)
    IN [written |-> TRUE,
        profile |-> profile,
        passed |-> \A i \in 1..Len(results) : results[i].passed,
        checks |-> results,
        summary |-> [total_checks |-> Len(results),
                     passed_checks |-> Len(results) - Len(failures),
                     failed_checks |-> [i \in 1..Len(failures) |-> failures[i].id]]]

NoMetrics == [written |-> FALSE]

report_file == "runs/<run_id>/evals/report.json"

\* completed_override when the gate never forces it to False
completed_override_never(completion_candidate, require_eval_pass, report) == "None"

\* completed_override as run_task leaves it before _write_metrics: "None"
\* or "False"
completed_override(completion_candidate, require_eval_pass, report) ==
    IF completion_candidate /\ require_eval_pass /\ ~report.passed THEN "False" ELSE "None"

\* _write_metrics taking the flag from the override alone
write_metrics_override_only(ledger_file, session_total, stuck_total, override, report) ==
    LET counts == completion_counts(ledger_file)
        payload == [written |-> TRUE, sessions |-> session_total,
                    phases_done |-> counts[1], phases_total |-> counts[2],
                    stuck_count |-> stuck_total, completed |-> override = "None"]
    IN IF report.written
       THEN payload @@ [eval |-> [passed |-> report.passed, profile |-> report.profile,
                                  report_file |-> report_file]]
       ELSE payload

\* _write_metrics: the payload written to metrics.json and returned
write_metrics(ledger_file, session_total, stuck_total, override, report) ==
    LET counts == completion_counts(ledger_file)
        completed == IF override = "None" THEN counts[1] = counts[2] /\ counts[2] > 0
                     ELSE FALSE
        payload == [written |-> TRUE, sessions |-> session_total,
                    phases_done |-> counts[1], phases_total |-> counts[2],
                    stuck_count |-> stuck_total, completed |-> completed]
    IN IF report.written
       THEN payload @@ [eval |-> [passed |-> report.passed, profile |-> report.profile,
                                  report_file |-> report_file]]
       ELSE payload

(***************************************************************************)
(* Bounds                                                                  *)
(***************************************************************************)
\* action requests of one provider response, in a session examined on its
\* own and in the sessions of a run
MaxActions == 2

MaxRunActions == 1

\* largest max_sessions a run_task call is given
MaxSessionsCap == 3

\* resume_task calls on the run
MaxResumes == 1

\* fragments a command string under validation is built from
MaxFrags == 3

\* extra checks passed to run_task
MaxExtraChecks == 1

(***************************************************************************)
(* Records of events.jsonl                                                 *)
(***************************************************************************)
Event(type, session_no) == [type |-> type, session_number |-> session_no]

SessionStarted(session_no, pending) ==
    [type |-> "session_started", session_number |-> session_no,
     prompt_mode |-> IF session_no = 1 THEN "initializer" ELSE "continuation",
     rpi_bootstrap_pending |-> pending]

ArtifactsCommitted(session_no, artifacts) ==
    [type |-> "rpi_artifacts_committed", session_number |-> session_no,
     artifacts |-> artifacts, source |-> "provider"]

ActionRequested(session_no, request) ==
    [type |-> "action_requested", session_number |-> session_no, request |-> request]

ActionDecided(session_no, request, decision) ==
    [type |-> IF decision.allowed THEN "action_approved" ELSE "action_denied",
     session_number |-> session_no, request |-> request, decision |-> decision]

ActionResulted(session_no, result) ==
    [type |-> "action_result", session_number |-> session_no, result |-> result]

CompletionBlocked(session_no, requested) ==
    [type |-> "completion_blocked", session_number |-> session_no,
     reason |-> "action failure or denial", requested_completed_ids |-> requested]

SubTaskCompleted(session_no, task_id) ==
    [type |-> "sub_task_completed", session_number |-> session_no, sub_task_id |-> task_id]

SessionFinished(session_no, action_count, counts, context_ratio) ==
    [type |-> "session_finished", session_number |-> session_no,
     context_ratio |-> context_ratio, action_count |-> action_count,
     done_count |-> counts[1], total_count |-> counts[2]]

\* the record run_task appends when the remaining context is low
ContextRollover(session_no, context_ratio, threshold) ==
    [type |-> "context_rollover", session_number |-> session_no,
     context_ratio |-> context_ratio, threshold |-> threshold]

\* response.raw_events of CodexProvider.run
raw_events(session_no, pending) ==
    <<Event("provider_live_worker_session", session_no),
      [type |-> "provider_subagent_plan", session_number |-> session_no,
       source |-> IF pending THEN "protocol_bootstrap" ELSE "protocol_session"]>>

EvalCompleted(profile, passed) ==
    [type |-> "eval_completed", profile |-> profile, passed |-> passed]

\* the types of the records of events.jsonl, and their kinds
recorded_kinds == trail \cup Kinds(events)

(***************************************************************************)
(* How a run_task or execute_session call ends                             *)
(***************************************************************************)
NoOutcome == [status |-> "none"]

Running == [status |-> "running"]

Raised(error) == [status |-> "raised", error |-> error]

\* run_task's return value: metrics is what metrics.json holds, eval is the
\* report (or None); the parameters the evaluation gate read are kept too
Returned(report, require_eval_pass, eval_checks) ==
    [status |-> "returned", eval |-> report, require_eval_pass |-> require_eval_pass,
     eval_checks |-> eval_checks]

\* SessionResult
SessionResult(session_no, accepted, counts, action_count, context_ratio) ==
    [session_number |-> session_no, completed_sub_task_ids |-> accepted,
     context_ratio |-> context_ratio, done_count |-> counts[1], total_count |-> counts[2],
     action_count |-> action_count]

NoSession == [session_number |-> 0]

NoEnvelope == [session_number |-> 0]

\* the locals of execute_session before the call and after it has ended
SessionLocalsCleared ==
    /\ session_number' = 0
    /\ task_envelope' = NoEnvelope
    /\ bootstrap_pending' = FALSE
    /\ ledger_at_start' = NoLedger
    /\ action_results' = <<>>
    /\ completed_ids' = <<>>
    /\ claimed_ids' = <<>>
    /\ session_result' = NoSession
    /\ handler_calls' = <<>>

\* an exception that is recorded while the session is started again
Fault_retrying(error) ==
    /\ pc' = "session"
    /\ outcome' = Raised(error)
    /\ SessionLocalsCleared

\* an exception leaves execute_session and, with no handler in run_task,
\* the run_task call
Fault(error) ==
    /\ pc' = "idle"
    /\ outcome' = Raised(error)
    /\ SessionLocalsCleared

(***************************************************************************)
(* orchestrator.run_task and executor.execute_session, step by step        *)
(*                                                                         *)
(* A provider response is consumed piecewise: its rpi_artifacts when       *)
(* provider.run returns, its action requests one per iteration of the      *)
(* action loop, its completed_sub_task_ids after the loop.  The model      *)
(* draws each piece where the code first reads it; likewise the            *)
(* parameters run_task reads only at the evaluation gate.                  *)
(***************************************************************************)
\* run_task up to the loop head (lines 101-117)
run_task(approver, cap) ==
    LET files == IF is_rpi_initialized(research, plan, ledger)
                 THEN [research |-> research, plan |-> plan, ledger |-> ledger]
                 ELSE init_rpi_artifacts(research, plan, ledger, NoLegacy, FALSE)
    IN /\ research' = files.research
       /\ plan' = files.plan
       /\ ledger' = files.ledger
       /\ runtime_approver' = approver
       /\ max_sessions' = cap
       /\ no_progress' = 0
       /\ stuck_count' = 0
       /\ sessions' = 0
       /\ progress_log' = <<>>
       /\ outcome' = Running
       /\ pc' = "loop"
       /\ trail' = recorded_kinds
       /\ events' = <<>>
       /\ UNCHANGED <<session_count, started, usage_file, slack_log, github_log, metrics, eval_report,
                      before_done, sessionVars, secVars, polVars, rpcVars, unitVars>>

RunTask(approvers, caps) ==
    /\ pc = "idle"
    /\ outcome.status = "none"
    /\ \E approver \in approvers, cap \in caps : run_task(approver, cap)
    /\ UNCHANGED resumes

\* resume_task on the run that state.json names as the last run
ResumeTask(approvers, caps) ==
    /\ pc = "idle"
    /\ outcome.status \in {"raised", "returned"}
    /\ resumes < MaxResumes
    /\ resumes' = resumes + 1
    /\ \E approver \in approvers, cap \in caps : run_task(approver, cap)

\* while not all_completed(feature_file): before_done, _ = completion_counts
LoopHead ==
    /\ pc = "loop"
    /\ IF all_completed(ledger)
       THEN pc' = "gate" /\ UNCHANGED before_done
       ELSE pc' = "session" /\ before_done' = completion_counts(ledger)[1]
    /\ UNCHANGED <<secVars, polVars, rpcVars, unitVars, diskVars, sessionVars, max_sessions, runtime_approver,
                   no_progress, stuck_count, sessions, outcome, resumes, progress_log>>

\* provider.connect raises and the failure is re-raised without a record
connection_failed_unrecorded(session_no) ==
    /\ events' = <<>>
    /\ Fault("provider connection failed")

\* provider.connect raises (lines 391-403): the record, then RuntimeError
connection_failed(session_no) ==
    /\ events' = <<Event("provider_connection_failed", session_no)>>
    /\ Fault("provider connection failed")

\* execute_session up to provider.run (lines 379-455)
SessionStart ==
    /\ pc = "session"
    /\ trail' = recorded_kinds
    /\ \/ connection_failed(session_count + 1) /\ UNCHANGED started
       \/ LET pending == needs_rpi_bootstrap(research, plan, ledger) IN
          /\ events' = <<Event("provider_connected", session_count + 1),
                         SessionStarted(session_count + 1, pending)>>
          /\ started' = Append(started, session_count + 1)
          /\ session_number' = session_count + 1
          /\ bootstrap_pending' = pending
          /\ task_envelope' = build_task_envelope(session_count + 1, pending)
          /\ ledger_at_start' = ledger
          /\ action_results' = <<>>
          /\ completed_ids' = <<>>
          /\ claimed_ids' = <<>>
          /\ session_result' = NoSession
          /\ handler_calls' = <<>>
          /\ pc' = "provider"
          /\ UNCHANGED outcome
    /\ UNCHANGED <<secVars, polVars, rpcVars, unitVars, research, plan, ledger, session_count, usage_file, slack_log, github_log,
                   metrics, eval_report, max_sessions, runtime_approver, no_progress,
                   stuck_count, sessions, before_done, resumes, progress_log>>

\* provider.run and the commit of its rpi_artifacts (lines 468-518).
\* bootstraps are the payloads a response may carry when the contract says
\* rpi_bootstrap_pending (research and plan are strings, feature_list is a
\* dict, or CodexProvider.run raises); continuations those of other sessions
ProviderRun(bootstraps, continuations) ==
    /\ pc = "provider"
    /\ \/ \* provider.run raises
          /\ Fault("provider run failed")
          /\ UNCHANGED <<research, plan, ledger, events>>
       \/ \E payload \in IF bootstrap_pending THEN bootstraps ELSE continuations :
             LET files == commit_rpi_artifacts(research, plan, ledger, payload) IN
             /\ research' = files.research
             /\ plan' = files.plan
             /\ ledger' = files.ledger
             /\ events' = events
                    \o <<Event("structured_output_parsed", session_number)>>
                    \o (IF files.written # <<>>
                        THEN <<ArtifactsCommitted(session_number, files.written)>>
                        ELSE <<>>)
             /\ pc' = "actions"
             /\ UNCHANGED <<outcome, sessionVars>>
    /\ UNCHANGED <<secVars, polVars, rpcVars, unitVars, session_count, started, usage_file, trail, slack_log, github_log, metrics,
                   eval_report, max_sessions, runtime_approver, no_progress, stuck_count,
                   sessions, before_done, resumes, progress_log>>

\* the records one iteration of the action loop appends, out of order: the
\* result before the decision
action_records_result_first(session_no, request, evaluated, decision, result) ==
    <<ActionRequested(session_no, request),
      ActionResulted(session_no, result),
      ActionDecided(session_no, evaluated, decision)>>

\* the records one iteration of the action loop appends to events.jsonl, in
\* the order of its _append_jsonl calls (lines 532, 552, 583)
action_records(session_no, request, evaluated, decision, result) ==
    <<ActionRequested(session_no, request),
      ActionDecided(session_no, evaluated, decision),
      ActionResulted(session_no, result)>>

\* the ActionResult of one iteration once the policy engine has answered:
\* that of the handler for an allowed request, "denied" otherwise
\* (lines 553-582)
action_result(request, verdict, env) ==
    IF verdict.decision.allowed
    THEN execute_action([request EXCEPT !.parameters = verdict.parameters],
                        task_envelope.constraints.max_runtime_sec, env)
    ELSE ActionResult(request.action_id, "denied", [kind |-> "none"], verdict.decision.reason)

\* what one iteration of the action loop leaves behind
ActionEffects(request, evaluated, decision, result) ==
    /\ events' = events \o action_records(session_number, request, evaluated, decision, result)
    /\ action_results' = Append(action_results, result)
    /\ handler_calls' = IF decision.allowed THEN Append(handler_calls, evaluated)
                        ELSE handler_calls
    /\ slack_log' = (slack_log \/ (decision.allowed /\ writes_slack(result)))
    /\ github_log' = (github_log \/ (decision.allowed /\ writes_github(result)))

\* one iteration of the action loop from the answer of the policy engine on
ActionIteration(request, verdict, env) ==
    ActionEffects(request, [request EXCEPT !.parameters = verdict.parameters],
                  verdict.decision, action_result(request, verdict, env))

\* one iteration of the action loop (lines 523-600)
ProcessAction(limit, requests, responses, environments) ==
    /\ pc = "actions"
    /\ ~bootstrap_pending
    /\ Len(action_results) < limit
    /\ \E raw \in requests, response \in responses, env \in environments :
          LET index == Len(action_results) + 1
              request == ActionRequest(<<session_number, index>>, raw.type, raw.selector,
                                       raw.parameters)
          IN ActionIteration(request,
                             evaluate(task_envelope, request, runtime_approver, response), env)
    /\ UNCHANGED <<secVars, polVars, rpcVars, unitVars, research, plan, ledger, session_count, started, usage_file, trail, metrics,
                   eval_report, runVars, session_number, task_envelope, bootstrap_pending,
                   ledger_at_start, completed_ids, claimed_ids, session_result>>

\* what an iteration that is cut short leaves behind: the first cut of its
\* appends and, if the handler had been entered, possibly its audit log
InterruptedEffects(request, evaluated, decision, result, cut) ==
    /\ events' = events \o SubSeq(action_records(session_number, request, evaluated, decision,
                                                  result), 1, cut)
    /\ slack_log' \in {slack_log, slack_log \/ (cut = 2 /\ decision.allowed /\ writes_slack(result))}
    /\ github_log' \in
          {github_log, github_log \/ (cut = 2 /\ decision.allowed /\ writes_github(result))}

InterruptedIteration(request, verdict, env, cut) ==
    InterruptedEffects(request, [request EXCEPT !.parameters = verdict.parameters],
                       verdict.decision, action_result(request, verdict, env), cut)

\* one iteration of the action loop that does not reach its end: the
\* process dies, or a hook callback or the runtime approver raises, after
\* the first cut of the iteration's appends.  The exception leaves
\* execute_session; a handler that had been entered may have written its
\* audit log.
InterruptAction(limit, requests, responses, environments) ==
    /\ pc = "actions"
    /\ ~bootstrap_pending
    /\ Len(action_results) < limit
    /\ \E raw \in requests, response \in responses, env \in environments, cut \in 1..2 :
          LET index == Len(action_results) + 1
              request == ActionRequest(<<session_number, index>>, raw.type, raw.selector,
                                       raw.parameters)
          IN InterruptedIteration(request,
                                  evaluate(task_envelope, request, runtime_approver, response),
                                  env, cut)
    /\ Fault("interrupted")
    /\ UNCHANGED <<secVars, polVars, rpcVars, unitVars, research, plan, ledger, session_count, started, usage_file, trail, metrics,
                   eval_report, max_sessions, runtime_approver, no_progress, stuck_count,
                   sessions, before_done, resumes, progress_log>>

\* for task_id in completed_ids: update_sub_task_status(...), until one
\* raises KeyError.  applied lists the ids written before that
RECURSIVE apply_completions(_, _, _)
apply_completions(sub_tasks, ids, applied) ==
    IF ids = <<>> THEN [sub_tasks |-> sub_tasks, applied |-> applied, raised |-> FALSE]
    ELSE IF ~known_sub_task(sub_tasks, Head(ids))
    THEN [sub_tasks |-> sub_tasks, applied |-> applied, raised |-> TRUE]
    ELSE apply_completions(update_sub_task_status(sub_tasks, Head(ids), TRUE), Tail(ids),
                           Append(applied, Head(ids)))

\* blocked = any(item.status in {"denied", "failed"} for item in action_results)
session_blocked(results) ==
    \E i \in 1..Len(results) : results[i].status \in {"denied", "failed"}

\* completed_ids = [] if blocked else list(response.completed_sub_task_ids)
accepted_completions(results, claimed) == IF session_blocked(results) THEN <<>> ELSE claimed

\* UsageTelemetry(**usage).model_dump(): a count the provider left out is 0
UsageTelemetry(usage) ==
    [input_tokens |-> Get(usage, "input_tokens", 0),
     output_tokens |-> Get(usage, "output_tokens", 0),
     total_tokens |-> Get(usage, "total_tokens", 0)]

\* what read_json(usage_file, default) returns while usage.json is missing
NoUsageFile ==
    [exists |-> FALSE, sessions |-> <<>>,
     totals |-> [input_tokens |-> 0, output_tokens |-> 0, total_tokens |-> 0, actions |-> 0]]

\* an update that stores the session's action count as the total
update_usage_last_actions(payload, session_no, usage, action_count) ==
    LET normalized == UsageTelemetry(usage) IN
    [exists |-> TRUE,
     sessions |-> Append(payload.sessions,
                         [session_number |-> session_no, usage |-> normalized,
                          actions |-> action_count]),
     totals |-> [input_tokens |-> payload.totals.input_tokens + normalized.input_tokens,
                 output_tokens |-> payload.totals.output_tokens + normalized.output_tokens,
                 total_tokens |-> payload.totals.total_tokens + normalized.total_tokens,
                 actions |-> action_count]]

\* _update_usage: the session's entry is appended and its counts are added
\* to the totals, then usage.json is written
update_usage(payload, session_no, usage, action_count) ==
    LET normalized == UsageTelemetry(usage) IN
    [exists |-> TRUE,
     sessions |-> Append(payload.sessions,
                         [session_number |-> session_no, usage |-> normalized,
                          actions |-> action_count]),
     totals |-> [input_tokens |-> payload.totals.input_tokens + normalized.input_tokens,
                 output_tokens |-> payload.totals.output_tokens + normalized.output_tokens,
                 total_tokens |-> payload.totals.total_tokens + normalized.total_tokens,
                 actions |-> payload.totals.actions + action_count]]

\* execute_session after the action loop (lines 602-732)
FinishSession(claims, ratios, usages) ==
    /\ pc = "actions"
    /\ \E claimed \in claims, context_ratio \in ratios, usage \in usages :
          LET blocked == session_blocked(action_results)
              accepted == accepted_completions(action_results, claimed)
              marker == IF blocked /\ claimed # <<>>
                        THEN <<CompletionBlocked(session_number, claimed)>>
                        ELSE <<>>
              updates == apply_completions(load_feature_list(ledger), accepted, <<>>)
              written == LedgerOf(updates.sub_tasks)
              recorded == events \o raw_events(session_number, bootstrap_pending) \o marker
                          \o [i \in 1..Len(updates.applied) |->
                                 SubTaskCompleted(session_number, updates.applied[i])]
              counts == completion_counts(written)
          IN /\ ledger' = written
             /\ IF updates.raised
                THEN /\ events' = recorded
                     /\ Fault("KeyError")
                     /\ UNCHANGED <<session_count, usage_file>>
                ELSE /\ events' = Append(recorded,
                                         SessionFinished(session_number,
                                                         Len(action_results), counts,
                                                         context_ratio))
                     /\ session_count' = session_number
                     /\ usage_file' = update_usage(usage_file, session_number, usage,
                                                   Len(action_results))
                     /\ claimed_ids' = claimed
                     /\ completed_ids' = accepted
                     /\ session_result' = SessionResult(session_number, accepted, counts,
                                                        Len(action_results), context_ratio)
                     /\ pc' = "tail"
                     /\ UNCHANGED <<outcome, session_number, task_envelope,
                                    bootstrap_pending, ledger_at_start, action_results,
                                    handler_calls>>
    /\ UNCHANGED <<secVars, polVars, rpcVars, unitVars, research, plan, trail, started, slack_log, github_log, metrics,
                   eval_report, max_sessions, runtime_approver, no_progress, stuck_count,
                   sessions, before_done, resumes, progress_log>>

\* the no-progress counter when progress does not reset it
next_no_progress_sticky(counter, before, after) == counter + 1

\* if after_done == before_done: no_progress += 1 else: no_progress = 0
next_no_progress(counter, before, after) == IF after = before THEN counter + 1 ELSE 0

\* a stuck detection that waits for a fourth session without progress
stuck_detected_late(counter) == counter >= 4

\* if no_progress >= 3
stuck_detected(counter) == counter >= 3

\* SessionResult.complete
complete(result) == result.total_count > 0 /\ result.done_count = result.total_count

\* run_task's context_threshold (0.6), in hundredths like every context ratio
context_threshold_default == 60

\* a rollover only when the remaining context is below the threshold
context_rollover_below(context_ratio, threshold) == context_ratio < threshold

\* if result.context_ratio <= context_threshold
context_rollover(context_ratio, threshold) == context_ratio <= threshold

\* run_task after execute_session has returned (lines 129-189)
LoopTail ==
    /\ pc = "tail"
    /\ LET counter == next_no_progress(no_progress, before_done, session_result.done_count)
           stuck == stuck_detected(counter)
           capped == sessions + 1 >= max_sessions
       IN /\ sessions' = sessions + 1
          /\ no_progress' = counter
          /\ stuck_count' = IF stuck THEN stuck_count + 1 ELSE stuck_count
          /\ events' = events
                 \o (IF context_rollover(session_result.context_ratio,
                                         context_threshold_default)
                     THEN <<ContextRollover(session_result.session_number,
                                            session_result.context_ratio,
                                            context_threshold_default)>>
                     ELSE <<>>)
                 \o (IF stuck THEN <<Event("stuck_detected", session_result.session_number)>>
                     ELSE IF complete(session_result) THEN <<>>
                     ELSE IF capped THEN <<Event("max_sessions_reached", 0)>>
                     ELSE <<>>)
          /\ pc' = IF stuck \/ complete(session_result) \/ capped THEN "gate" ELSE "loop"
    /\ progress_log' = Append(progress_log,
                              completion_counts(ledger)[1]
                                  = completion_counts(ledger_at_start)[1])
    /\ SessionLocalsCleared
    /\ UNCHANGED <<secVars, polVars, rpcVars, unitVars, research, plan, ledger, session_count, started, usage_file, trail, slack_log,
                   github_log, metrics, eval_report, max_sessions, runtime_approver,
                   before_done, outcome, resumes>>

\* run_task after the loop (lines 191-241)
FinishRun(check_lists) ==
    /\ pc = "gate"
    /\ IF all_completed(ledger)
       THEN \E require_eval_pass \in BOOLEAN, eval_checks \in check_lists :
               LET report == run_eval_suite(ledger, recorded_kinds, session_count,
                                            slack_log, github_log, "default", eval_checks)
                   override == completed_override(TRUE, require_eval_pass, report)
               IN /\ eval_report' = report
                  /\ events' = events
                         \o <<EvalCompleted("default", report.passed)>>
                         \o (IF override = "False"
                             THEN <<[type |-> "eval_gate_blocked_completion",
                                     profile |-> "default"]>>
                             ELSE <<>>)
                  /\ metrics' = write_metrics(ledger, sessions, stuck_count, override, report)
                  /\ outcome' = Returned(report, require_eval_pass, eval_checks)
       ELSE /\ metrics' = write_metrics(ledger, sessions, stuck_count,
                                        completed_override(FALSE, FALSE, NoReport), NoReport)
            /\ outcome' = Returned(NoReport, FALSE, <<>>)
            /\ UNCHANGED <<eval_report, events>>
    /\ pc' = "idle"
    /\ UNCHANGED <<secVars, polVars, rpcVars, unitVars, research, plan, ledger, session_count, started, usage_file, trail, slack_log,
                   github_log, max_sessions, runtime_approver, no_progress, stuck_count,
                   sessions, before_done, resumes, progress_log, sessionVars>>

\* validate_command applied to the command under test
ValidateCommand ==
    /\ sec_pc = "input"
    /\ sec_commands' = extract_commands(sec_command)
    /\ sec_result' = validate_command(sec_command)
    /\ sec_pc' = "done"
    /\ UNCHANGED <<sec_command, polVars, rpcVars, unitVars, diskVars, runVars, sessionVars>>

(***************************************************************************)
(* providers.py: the protocol client runtime (_CodexProtocolRuntime)       *)
(*                                                                         *)
(* A peer message is a JSON object; a key it does not have is Absent, a    *)
(* key whose value is null is None.  Of a result only what the callers     *)
(* read is kept: whether it is an object, null or something else, and the  *)
(* thread id, turn id and agent-message text an object carries.  A turn id *)
(* is a JSON value with its type, for the client converts it with str().   *)
(***************************************************************************)
Absent == "<absent>"

JsonString(text) == [type |-> "str", text |-> text]

\* a JSON number, with the text str() makes of it
JsonNumber(n) == [type |-> "int", text |-> ToString(n)]

\* null, with the text str() makes of it
JsonNull == [type |-> "null", text |-> "None"]

JsonAbsent == [type |-> "absent", text |-> ""]

\* str(turn_obj.get("id", ""))
id_text(value) == IF value.type = "absent" THEN "" ELSE value.text

NoResult == [kind |-> "absent", thread |-> None, turn |-> JsonAbsent, text |-> <<>>]

ResultObject(thread, turn, text) ==
    [kind |-> "object", thread |-> thread, turn |-> turn, text |-> text]

ResultNull == [kind |-> "null", thread |-> None, turn |-> JsonAbsent, text |-> <<>>]

ResultNumber == [kind |-> "number", thread |-> None, turn |-> JsonAbsent, text |-> <<>>]

\* token_usage = {}
NoUsage == "{}"

NoParams == [turn |-> JsonAbsent, text |-> <<>>, usage |-> Absent]

NoHeard == [text |-> <<>>, usage |-> NoUsage]

\* an item of the queue that _read_stdout fills: a parsed line, or the
\* marker of a malformed line or of the end of the stream
Payload(stream, method, id, result, error, params) ==
    [stream |-> stream, method |-> method, id |-> id, result |-> result, error |-> error,
     params |-> params]

\* a message the client sends in answer to a peer request
Reply(id, result, error) == [id |-> id, result |-> result, error |-> error]

NoRequest == [id |-> None, method |-> None]

NoDequeue ==
    [payload |-> Payload("none", Absent, Absent, NoResult, Absent, NoParams),
     stage |-> "off", request |-> NoRequest, turn_id |-> None, replies |-> <<>>,
     effect |-> "none", notified |-> FALSE]

\* _next_request_id that hands out the current counter again
next_request_id_reused(next_id) ==
    [next_id |-> next_id, request_id |-> "req-" \o ToString(next_id)]

\* _next_request_id: self._next_id += 1; return f"req-{self._next_id}"
next_request_id(next_id) ==
    [next_id |-> next_id + 1, request_id |-> "req-" \o ToString(next_id + 1)]

\* _dequeue: the error it raises for this item, or None
dequeue_error(payload) ==
    IF payload.stream = "eof" THEN "codex app-server stream ended unexpectedly"
    ELSE IF payload.stream = "malformed" THEN "received malformed codex protocol line"
    ELSE None

\* "method" in payload and "id" in payload and "result" not in payload and
\* "error" not in payload
is_server_request(payload) ==
    /\ payload.method # Absent
    /\ payload.id # Absent
    /\ payload.result.kind = "absent"
    /\ payload.error = Absent

\* _handle_server_request: the messages it sends
handle_server_request(payload) ==
    LET method == IF payload.method = Absent THEN "" ELSE payload.method
        request_id == IF payload.id = Absent THEN None ELSE payload.id
    IN IF request_id = None THEN <<>>
       ELSE IF method \in {"item/commandExecution/requestApproval",
                           "item/fileChange/requestApproval"}
       THEN <<Reply(request_id, "decision: accept", Absent)>>
       ELSE IF method \in {"execCommandApproval", "applyPatchApproval"}
       THEN <<Reply(request_id, "decision: approved", Absent)>>
       ELSE IF method = "item/tool/requestUserInput"
       THEN <<Reply(request_id, "answers: {}", Absent)>>
       ELSE IF method = "item/tool/call"
       THEN <<Reply(request_id, "success: false", Absent)>>
       ELSE <<Reply(request_id, Absent, "unsupported server request")>>

\* one iteration of the loop of request() on a dequeued message; collecting
\* says whether the caller passed a notifications list
request_step(payload, request_id, collecting) ==
    LET step(effect, result, error, replies, notified) ==
            [effect |-> effect, result |-> result, error |-> error, replies |-> replies,
             notified |-> notified]
        id == IF payload.id = Absent THEN None ELSE payload.id
    IN IF is_server_request(payload)
       THEN step("server_request", NoResult, None, handle_server_request(payload), FALSE)
       ELSE IF id = request_id /\ (payload.result.kind # "absent" \/ payload.error # Absent)
       THEN IF payload.error # Absent
            THEN step("rejected", NoResult, "codex protocol error", <<>>, FALSE)
            ELSE IF payload.result.kind = "object"
            THEN step("resolved", payload.result, None, <<>>, FALSE)
            ELSE IF payload.result.kind = "null"
            THEN step("resolved", ResultObject(None, JsonAbsent, <<>>), None, <<>>, FALSE)
            ELSE step("rejected", NoResult, "codex protocol result is not an object",
                      <<>>, FALSE)
       ELSE IF collecting /\ payload.method # Absent /\ payload.id = Absent
       THEN step("notification", NoResult, None, <<>>, TRUE)
       ELSE step("ignored", NoResult, None, <<>>, FALSE)

\* the turn/completed test that takes the completion of any turn
turn_completed_any(payload, turn_id) == payload.method = "turn/completed"

\* method == "turn/completed" and str(turn_obj.get("id", "")) == turn_id
turn_completed(payload, turn_id) ==
    payload.method = "turn/completed" /\ id_text(payload.params.turn) = turn_id

\* one iteration of the waiting loop of run_turn on a dequeued message
turn_step(payload, turn_id, last_agent_message, token_usage) ==
    LET step(effect, replies, notified, text, usage) ==
            [effect |-> effect, replies |-> replies, notified |-> notified,
             last_agent_message |-> text, token_usage |-> usage]
    IN IF is_server_request(payload)
       THEN step("server_request", handle_server_request(payload), FALSE, last_agent_message,
                 token_usage)
       ELSE IF payload.method = Absent \/ payload.id # Absent
       THEN step("ignored", <<>>, FALSE, last_agent_message, token_usage)
       ELSE IF payload.method = "item/completed" /\ strip(payload.params.text) # <<>>
       THEN step("notification", <<>>, TRUE, payload.params.text, token_usage)
       ELSE IF payload.method = "thread/tokenUsage/updated" /\ payload.params.usage # Absent
       THEN step("notification", <<>>, TRUE, last_agent_message, payload.params.usage)
       ELSE IF turn_completed(payload, turn_id)
       THEN step("break", <<>>, TRUE, last_agent_message, token_usage)
       ELSE step("notification", <<>>, TRUE, last_agent_message, token_usage)

\* the latest agent message and usage snapshot among the notifications
\* heard, after this one
hears(heard, payload) ==
    [text |-> IF payload.method = "item/completed" /\ strip(payload.params.text) # <<>>
              THEN payload.params.text ELSE heard.text,
     usage |-> IF payload.method = "thread/tokenUsage/updated" /\ payload.params.usage # Absent
               THEN payload.params.usage ELSE heard.usage]

(***************************************************************************)
(* orchestrator.py: fork_run                                               *)
(*                                                                         *)
(* A file is its lines, a directory tree (snapshots, checkpoints) the set  *)
(* of its entries; a run directory holds the five files fork_run copies,   *)
(* the two trees, and fork.json.                                           *)
(***************************************************************************)
NoFile == [exists |-> FALSE, lines |-> <<>>]

FileOf(lines) == [exists |-> TRUE, lines |-> lines]

NoTree == [exists |-> FALSE, entries |-> {}]

TreeOf(entries) == [exists |-> TRUE, entries |-> entries]

\* the files fork_run copies, events.jsonl first
COPIED_FILES == {"events.jsonl", "progress.md", "session_meta.json", "usage.json", "metrics.json"}

COPIED_TREES == {"snapshots", "checkpoints"}

NoRunDir ==
    [exists |-> FALSE, files |-> [name \in COPIED_FILES |-> NoFile],
     trees |-> [name \in COPIED_TREES |-> NoTree], fork |-> NoFile]

\* run_dir.mkdir(parents=True, exist_ok=True)
mkdir(run_dir) == [run_dir EXCEPT !.exists = TRUE]

\* shutil.copytree(src, dst, dirs_exist_ok=True): the entries of src replace
\* those of the same name in dst, the other entries of dst stay
copytree(src, dst) ==
    TreeOf(src.entries \cup {entry \in dst.entries :
                                \A copied \in src.entries : copied.name # entry.name})

\* _append_event(run_dir, payload)
append_event(file, type) == FileOf(Append(file.lines, type))

\* the target id fork_run makes up when it is given none: the source id and
\* the time of the call
default_target(source_run_id) == source_run_id \o "_fork"

\* fork_run(paths, source_run_id, target_run_id): the directories under
\* runs/ after the call, and whether it raised.  Copying a file or a tree
\* entry onto itself raises (shutil.SameFileError, shutil.Error).
fork_run(runs, source_run_id, target_run_id) ==
    LET source_dir == runs[source_run_id]
        active_target == IF target_run_id = None THEN default_target(source_run_id)
                         ELSE target_run_id
        target_dir == mkdir(runs[active_target])
        same == active_target = source_run_id
        copies_itself ==
            /\ same
            /\ \/ \E name \in COPIED_FILES : source_dir.files[name].exists
               \/ \E name \in COPIED_TREES : source_dir.trees[name].entries # {}
        files == [name \in COPIED_FILES |->
                    IF source_dir.files[name].exists THEN source_dir.files[name]
                    ELSE target_dir.files[name]]
        trees == [name \in COPIED_TREES |->
                    IF source_dir.trees[name].exists
                    THEN copytree(source_dir.trees[name], target_dir.trees[name])
                    ELSE target_dir.trees[name]]
        forked == [target_dir EXCEPT
                      !.files = [files EXCEPT !["events.jsonl"] = append_event(@, "run_forked")],
                      !.trees = trees,
                      !.fork = FileOf(<<source_run_id, active_target>>)]
    IN IF ~source_dir.exists
       THEN [raised |-> TRUE, error |-> "source run does not exist", runs |-> runs,
             target |-> None]
       ELSE IF copies_itself
       THEN [raised |-> TRUE, error |-> "same file", runs |-> runs, target |-> active_target]
       ELSE [raised |-> FALSE, error |-> None,
             runs |-> [runs EXCEPT ![active_target] = forked], target |-> active_target]

(***************************************************************************)
(* Inputs                                                                  *)
(***************************************************************************)
\* Command strings handed to the validator: concatenations of fragments
Fragments ==
    {<<"r","m"," ","x">>,
     <<"r","m"," ","-","r","f"," ","/","e","t","c">>,
     <<" ","&","&"," ">>,
     <<"|","|">>,
     <<";">>,
     <<" ","|"," ">>,
     <<"l","s">>,
     <<"s","h">>,
     <<"'">>,
     <<" ">>,
     <<"c","h","m","o","d"," ","+","x"," ","f">>,
     <<"c","h","m","o","d"," ","7","7","7"," ","f">>,
     <<"p","k","i","l","l"," ","n","o","d","e">>,
     <<"p","k","i","l","l"," ","s","s","h","d">>,
     <<".","/","i","n","i","t",".","s","h">>,
     <<"X","=","1"," ">>,
     <<"/","b","i","n","/">>}

RECURSIVE CommandsOf(_)
CommandsOf(n) ==
    IF n = 0 THEN {<<>>}
    ELSE LET shorter == CommandsOf(n - 1) IN
         shorter \cup {command \o fragment : command \in shorter, fragment \in Fragments}

\* Feature lists a provider response carries, as the provider wrote them
RawA ==
    [id |-> "a", phase_id |-> "phase_1", phase |-> "Build",
     sub_task_description |-> "Implement a", criteria |-> <<"a works">>, status |-> FALSE]

RawB ==
    [id |-> "b", phase_id |-> "phase_2", phase |-> "Verify",
     sub_task_description |-> "Test b", criteria |-> <<"b tested", "">>, status |-> FALSE]

RawBare == [status |-> TRUE]

ListAB == <<RawA, RawB>>

ListB2 == <<RawB, RawBare>>

Doc == <<"#"," ","d","o","c">>

Blank == <<" ">>

RpiArtifacts(research_text, plan_text, feature_list) ==
    [research |-> research_text, plan |-> plan_text, feature_list |-> feature_list]

Bootstraps == {RpiArtifacts(Doc, Doc, ListAB), RpiArtifacts(Blank, Doc, ListAB)}

Continuations ==
    {RpiArtifacts(NoneText, NoneText, NoFeatureList),
     RpiArtifacts(NoneText, NoneText, ListAB),
     RpiArtifacts(NoneText, NoneText, ListB2)}

\* completed_sub_task_ids of a provider response
Claims == {<<>>, <<"a">>, <<"b">>, <<"a", "b">>, <<"a", "zz">>}

\* Action requests of a provider response
RawRequest(type, selector, parameters) ==
    [type |-> type, selector |-> selector, parameters |-> parameters]

rm_rf_root == <<"r","m"," ","-","r","f"," ","/">>

rm_etc == <<"r","m"," ","/","e","t","c">>

curl_x == <<"C","u","r","l"," ","x">>

curl_plain == <<"c","u","r","l"," ","x">>

ls_command == <<"l","s">>

ReadInside == RawRequest("read_file", None, [path |-> <<"docs", "..", "README.md">>])

ReadOutside == RawRequest("read_file", None, [path |-> <<"..", "etc">>])

WriteInside == RawRequest("write_file", None, [path |-> <<"out.txt">>])

RunLs == RawRequest("run", "cmd", [cmd |-> ls_command, timeout_sec |-> Seconds(5)])

RunRmRoot == RawRequest("run", "cmd", [cmd |-> rm_rf_root])

RunRmEtc == RawRequest("run", None, [cmd |-> rm_etc])

RunCurl == RawRequest("run", "test", [cmd |-> curl_x])

RunBlank == RawRequest("run", "build", [cmd |-> Blank])

RunDeploy == RawRequest("run", "deploy", [cmd |-> ls_command])

RunLint == RawRequest("run", None, [cmd |-> ls_command, selector |-> "lint"])

Patch == RawRequest("propose_patch", None, EmptyMap)

McpSlack == RawRequest("mcp_call", None, [namespace |-> "slack", message |-> "hello"])

NotifySlack == RawRequest("notify", "slack", [message |-> "hello"])

NotifyEmpty == RawRequest("notify", "slack", [message |-> ""])

GithubCommit == RawRequest("github", "commit", [summary |-> "commit"])

Cmd == RawRequest("cmd", None, [cmd |-> ls_command])

Deploy == RawRequest("deploy", None, EmptyMap)

\* the requests of a run: one per outcome (completed, failed, denied) and
\* the two that leave audit logs
Requests == {ReadInside, RunRmRoot, Deploy, NotifySlack, GithubCommit}

\* the requests of a session examined on its own
SessionRequests ==
    {ReadInside, ReadOutside, WriteInside, RunLs, RunRmRoot, RunRmEtc, RunCurl, RunBlank,
     RunDeploy, RunLint, Patch, McpSlack, NotifySlack, NotifyEmpty, GithubCommit, Cmd,
     Deploy}

\* What a configured runtime approver answers
Answer(kind, allowed, reason, mutated_parameters) ==
    [kind |-> kind, allowed |-> allowed, reason |-> reason,
     mutated_parameters |-> mutated_parameters]

Responses == {Answer("bool", TRUE, "", EmptyMap), Answer("bool", FALSE, "", EmptyMap)}

SessionResponses ==
    Responses
    \cup {Answer("tuple", FALSE, "operator said no", EmptyMap),
          Answer("dict", TRUE, "edited", [cmd |-> curl_x]),
          Answer("dict", TRUE, "edited", [cmd |-> curl_plain])}

Approvers == {"none", "configured"}

\* The handlers' view of the world: whether file I/O succeeds, what a spawned
\* child does ("completed", "failed" or "timeout"), whether the external
\* collaborator answers
AllOk == [io_ok |-> TRUE, proc |-> "completed", collaborator_ok |-> TRUE]

SessionEnvironments ==
    {AllOk, [AllOk EXCEPT !.io_ok = FALSE], [AllOk EXCEPT !.proc = "failed"],
     [AllOk EXCEPT !.proc = "timeout"], [AllOk EXCEPT !.collaborator_ok = FALSE]}

SessionCaps == {1, MaxSessionsCap}

\* context_ratio of a provider response, in hundredths: the default (1.0)
FullContext == {100}

\* usage of a provider response: the default ({})
NoTokens == {EmptyMap}

\* eval_checks of run_task
ExtraChecks == {EvalCheck("custom_check", behaviour) : behaviour \in {"pass", "fail", "raise"}}

CheckLists == UNION {[1..n -> ExtraChecks] : n \in 0..MaxExtraChecks}

(***************************************************************************)
(* Specifications                                                          *)
(***************************************************************************)
\* no validator call under test
ValidatorIdle ==
    /\ sec_command = <<>>
    /\ sec_commands = <<>>
    /\ sec_result = ValidationResult(FALSE, "")
    /\ sec_pc = "off"

\* no evaluate call under test
PolicyIdle ==
    /\ pol_envelope = NoEnvelope
    /\ pol_request = ActionRequest(<<0, 0>>, "unknown", None, EmptyMap)
    /\ pol_approver = "none"
    /\ pol_response = Answer("bool", FALSE, "", EmptyMap)
    /\ pol_verdict = [approver_calls |-> 0]
    /\ pol_pc = "off"

\* no protocol runtime constructed
\* no operation is under test on its own
RpiInitIdle ==
    /\ rpi_legacy = NoLegacy
    /\ rpi_outputs = NoOutcome
    /\ rpi_before = <<>>
    /\ rpi_calls = 0

ForkIdle ==
    /\ fork_runs = <<>>
    /\ fork_last_run_id = None
    /\ fork_outcome = NoOutcome
    /\ fork_call = <<>>
    /\ fork_before = <<>>
    /\ fork_count = 0

UnitsIdle == ForkIdle /\ RpiInitIdle

ProtocolIdle ==
    /\ rpc_stage = "off"
    /\ rpc_next_id = 0
    /\ rpc_request = NoRequest
    /\ rpc_thread_id = None
    /\ rpc_turn_id = None
    /\ rpc_notifications = <<>>
    /\ rpc_last_agent_message = <<>>
    /\ rpc_token_usage = NoUsage
    /\ rpc_heard = NoHeard
    /\ rpc_outcome = [status |-> "none", error |-> None]
    /\ rpc_proc = "none"
    /\ rpc_issued = <<>>
    /\ rpc_steps = 0
    /\ rpc_last = NoDequeue
    /\ rpc_pipe = 0
    /\ rpc_resume = None
    /\ rpc_stdout = <<>>
    /\ rpc_queue = <<>>

\* no execute_session call on the stack
SessionIdle ==
    /\ session_number = 0
    /\ task_envelope = NoEnvelope
    /\ bootstrap_pending = FALSE
    /\ ledger_at_start = NoLedger
    /\ action_results = <<>>
    /\ completed_ids = <<>>
    /\ claimed_ids = <<>>
    /\ session_result = NoSession
    /\ handler_calls = <<>>

\* a repository on which run_task has not been called yet
FreshRepository ==
    /\ research = "absent"
    /\ plan = "absent"
    /\ ledger = NoLedger
    /\ session_count = 0
    /\ trail = {}
    /\ started = <<>>
    /\ usage_file = NoUsageFile
    /\ events = <<>>
    /\ slack_log = FALSE
    /\ github_log = FALSE
    /\ metrics = NoMetrics
    /\ eval_report = NoReport

RunIdle ==
    /\ pc = "idle"
    /\ max_sessions = 0
    /\ runtime_approver = "none"
    /\ no_progress = 0
    /\ stuck_count = 0
    /\ sessions = 0
    /\ before_done = 0
    /\ outcome = NoOutcome
    /\ resumes = 0
    /\ progress_log = <<>>

\* A run: run_task on a fresh repository, then resume_task calls
Init == ValidatorIdle /\ PolicyIdle /\ ProtocolIdle /\ UnitsIdle /\ FreshRepository /\ RunIdle /\ SessionIdle

Next ==
    \/ RunTask({"none"}, SessionCaps)
    \/ ResumeTask({"none"}, SessionCaps)
    \/ LoopHead
    \/ SessionStart
    \/ ProviderRun(Bootstraps, Continuations)
    \/ ProcessAction(MaxRunActions, Requests, Responses, {AllOk})
    \/ FinishSession(Claims, FullContext, NoTokens)
    \/ LoopTail
    \/ FinishRun(CheckLists)

Spec == Init /\ [][Next]_vars

\* The validator on its own: validate_command on each command string
InitSec ==
    /\ sec_command \in CommandsOf(MaxFrags)
    /\ sec_commands = <<>>
    /\ sec_result = ValidationResult(FALSE, "")
    /\ sec_pc = "input"
    /\ PolicyIdle /\ ProtocolIdle /\ UnitsIdle /\ FreshRepository /\ RunIdle /\ SessionIdle

NextSec == ValidateCommand

SpecSec == InitSec /\ [][NextSec]_vars

\* One execute_session call, as run_task makes it: the first session of a
\* run (artifacts as init_rpi_artifacts left them) or a session after the
\* bootstrap session has committed the provider's feature list
BootstrapTrail == {<<"provider_subagent_plan", "">>, <<"session_finished", "">>}

InitSession ==
    /\ ValidatorIdle
    /\ PolicyIdle
    /\ ProtocolIdle /\ UnitsIdle
    /\ SessionIdle
    /\ \/ /\ research = "pending" /\ plan = "pending"
          /\ ledger = LedgerOf(default_sub_tasks)
          /\ session_count = 0
          /\ trail = {}
          /\ started = <<>>
          /\ usage_file = NoUsageFile
       \/ /\ research = "generated" /\ plan = "generated"
          /\ ledger = LedgerOf(update_sub_task_status(normalize_feature_payload(ListAB),
                                                      "a", TRUE))
          /\ session_count = 1
          /\ trail = BootstrapTrail
          /\ started = <<1>>
          /\ usage_file = update_usage(NoUsageFile, 1, EmptyMap, 0)
    /\ events = <<>>
    /\ slack_log = FALSE
    /\ github_log = FALSE
    /\ metrics = NoMetrics
    /\ eval_report = NoReport
    /\ pc = "session"
    /\ max_sessions = MaxSessionsCap
    /\ runtime_approver \in Approvers
    /\ no_progress = 0
    /\ stuck_count = 0
    /\ sessions = session_count
    /\ before_done = completion_counts(ledger)[1]
    /\ outcome = Running
    /\ resumes = 0
    /\ progress_log = IF session_count = 1 THEN <<FALSE>> ELSE <<>>

NextSession ==
    \/ SessionStart
    \/ ProviderRun(Bootstraps, Continuations)
    \/ ProcessAction(MaxActions, SessionRequests, SessionResponses, SessionEnvironments)
    \/ FinishSession(Claims, FullContext, NoTokens)

SpecSession == InitSession /\ [][NextSession]_vars

(***************************************************************************)
(* Properties of the Security Validator (under SpecSec)                    *)
(***************************************************************************)
\* an invocation of rm, chmod, pkill or init.sh, in some segment of the
\* command (split at &&, || and ;), fails the structural check of its command
StructuralFailure(command) ==
    LET segments == split_command_segments(command) IN
    \E i \in 1..Len(segments) :
        LET invoked == extract_commands(segments[i]) IN
        \E j \in 1..Len(invoked) :
            /\ invoked[j] \in COMMANDS_NEEDING_EXTRA_VALIDATION
            /\ ~extra_validation(invoked[j], segments[i]).allowed

\* C8: validate_command returns invalid for every command string in which
\* some invocation of rm, chmod, pkill or init.sh fails its structural
\* check, whichever segment the invocation is in, also when another segment
\* invokes the same command validly.
C8_StructuralFailureInvalidates ==
    (sec_pc = "done" /\ StructuralFailure(sec_command)) => ~sec_result.allowed

AllowedTypes(envelope) ==
    {envelope.allowed_actions[i].type : i \in 1..Len(envelope.allowed_actions)}

InSession == pc \in {"actions", "tail"}

\* C1: a handler runs only for a request that evaluate allowed; a request
\* whose type is not in the contract's allowed-action list is never handed
\* to the executor: its decision is a denial of the static stage and its
\* action result has status denied.
C1_OnlyAllowedRequestsExecute ==
    InSession =>
        /\ \A k \in 1..Len(handler_calls) :
               \E j \in 1..Len(events) :
                   /\ events[j].type = "action_approved"
                   /\ events[j].request.action_id = handler_calls[k].action_id
                   /\ events[j].decision.allowed
        /\ \A i \in 1..Len(events) :
               (/\ events[i].type = "action_requested"
                /\ events[i].request.type \notin AllowedTypes(task_envelope))
               => /\ \A k \in 1..Len(handler_calls) :
                         handler_calls[k].action_id # events[i].request.action_id
                  /\ events[i + 1].type = "action_denied"
                  /\ events[i + 1].request.action_id = events[i].request.action_id
                  /\ ~events[i + 1].decision.allowed
                  /\ events[i + 1].decision.policy_stage = "static"
                  /\ events[i + 2].type = "action_result"
                  /\ events[i + 2].result.action_id = events[i].request.action_id
                  /\ events[i + 2].result.status = "denied"

\* a session in which one request ran and another, of a type outside the
\* allowed-action list, was denied
C1_Witness ==
    /\ pc = "tail"
    /\ Len(handler_calls) = 1
    /\ \E i \in 1..Len(events) :
          /\ events[i].type = "action_denied"
          /\ events[i].request.type \notin AllowedTypes(task_envelope)
          /\ events[i].decision.policy_stage = "static"

\* C2: if an action result of the session is failed or denied, the accepted
\* completed-sub-task set is empty whatever was claimed, no sub-task status
\* in the ledger is changed by the session, and when claims were made a
\* completion_blocked record is in the trail instead.
C2_BlockedSessionChangesNoStatus ==
    (pc = "tail" /\ session_blocked(action_results)) =>
        LET before == load_feature_list(ledger_at_start)
            after == load_feature_list(ledger)
        IN /\ completed_ids = <<>>
           /\ session_result.completed_sub_task_ids = <<>>
           /\ \A i \in 1..Len(before), j \in 1..Len(after) :
                  before[i].id = after[j].id => before[i].status = after[j].status
           /\ \A i \in 1..Len(events) : events[i].type # "sub_task_completed"
           /\ claimed_ids # <<>> =>
                  \E i \in 1..Len(events) :
                      /\ events[i].type = "completion_blocked"
                      /\ events[i].requested_completed_ids = claimed_ids

\* C7: for every run action whose command the Security Validator rejects,
\* the recorded decision is a denial and the action result has status
\* denied.
C7_RejectedCommandIsDenied ==
    InSession =>
        \A i \in 1..Len(events) :
            (/\ events[i].type = "action_requested"
             /\ events[i].request.type = "run"
             /\ "cmd" \in DOMAIN events[i].request.parameters
             /\ ~validate_command(events[i].request.parameters.cmd).allowed)
            => /\ events[i + 1].type = "action_denied"
               /\ events[i + 2].result.status = "denied"

(***************************************************************************)
(* Properties of a run (under Spec)                                        *)
(***************************************************************************)
\* a session that did not start with the bootstrap pending is under way
AfterBootstrap == pc \in {"provider", "actions", "tail"} /\ ~bootstrap_pending

\* C3: the ledger's list of ids, their order, and each sub-task's phase,
\* description and criteria stay as created at bootstrap; a provider
\* response carrying a new feature list leaves the ledger unchanged.
C3_LedgerShapeFixed ==
    AfterBootstrap =>
        status_only_mutation(load_feature_list(ledger_at_start), load_feature_list(ledger))

\* C4: a status changes only by a completion accepted in a session (false
\* to true), and a status that has become true is never lost.
C4_ConfirmedStatusKept ==
    AfterBootstrap =>
        LET before == load_feature_list(ledger_at_start)
            after == load_feature_list(ledger)
            accepted == {completed_ids[k] : k \in 1..Len(completed_ids)}
        IN /\ \A i \in 1..Len(before) :
                  before[i].status =>
                      \E j \in 1..Len(after) : after[j].id = before[i].id /\ after[j].status
           /\ \A j \in 1..Len(after) :
                  after[j].status =>
                      \/ after[j].id \in accepted
                      \/ \E i \in 1..Len(before) :
                             before[i].id = after[j].id /\ before[i].status

\* done_count == total_count > 0 on the ledger
LedgerDone == completion_counts(ledger)[1] = completion_counts(ledger)[2]
                  /\ completion_counts(ledger)[2] > 0

\* run_task has returned and its required evaluation suite had failed
GateFailed ==
    /\ outcome.status = "returned"
    /\ outcome.eval.written
    /\ outcome.require_eval_pass
    /\ ~outcome.eval.passed

\* C5: the completed flag run_task records in the metrics is true only if
\* done_count == total_count > 0; when that holds but the required suite
\* fails the flag is false; when the suite passes or is not required the
\* flag equals (done_count == total_count > 0).
C5_CompletedFlag ==
    outcome.status = "returned" =>
        /\ metrics.phases_done = completion_counts(ledger)[1]
        /\ metrics.phases_total = completion_counts(ledger)[2]
        /\ metrics.completed => LedgerDone
        /\ (LedgerDone /\ GateFailed) => ~metrics.completed
        /\ ~GateFailed => (metrics.completed = LedgerDone)

\* run_task has returned on a fully done ledger whose required suite failed
C5_Witness == GateFailed /\ LedgerDone /\ ~metrics.completed

\* the number of sessions at the end of the log that left the done count
\* unchanged
RECURSIVE TrailingUnchanged(_)
TrailingUnchanged(log) ==
    IF log = <<>> \/ ~log[Len(log)] THEN 0
    ELSE 1 + TrailingUnchanged(SubSeq(log, 1, Len(log) - 1))

\* sessions k, k+1 and k+2 of the invocation each left the done count unchanged
ThreeUnchangedFrom(log, k) == log[k] /\ log[k + 1] /\ log[k + 2]

HasEvent(type) == \E i \in 1..Len(events) : events[i].type = type

\* C6: in a run_task invocation the run is marked stuck exactly when three
\* consecutive sessions each leave the done count unchanged: the loop then
\* stops right after the third with stuck_count = 1 and a stuck_detected
\* record, starts no further session and records no max_sessions_reached;
\* a session that changes the done count resets the consecutive counter.
C6_StuckAfterThreeUnchanged ==
    /\ no_progress = TrailingUnchanged(progress_log)
    /\ sessions = Len(progress_log)
    /\ stuck_count = IF \E k \in 1..(Len(progress_log) - 2) :
                            ThreeUnchangedFrom(progress_log, k)
                     THEN 1 ELSE 0
    /\ \A k \in 1..(Len(progress_log) - 2) :
           ThreeUnchangedFrom(progress_log, k) => k + 2 = Len(progress_log)
    /\ stuck_count = 1 =>
           /\ pc \in {"gate", "idle"}
           /\ HasEvent("stuck_detected")
           /\ ~HasEvent("max_sessions_reached")
    /\ (stuck_count = 0 /\ pc \in {"gate", "idle"}) => ~HasEvent("stuck_detected")

\* an invocation has returned stuck after as many sessions as its
\* max_sessions allows
C6_Witness ==
    /\ stuck_count = 1
    /\ pc = "idle"
    /\ max_sessions = Len(progress_log)
    /\ outcome.status = "returned"

\* the ids of failing checks that metrics.json carries
metrics_failed_checks ==
    IF "eval" \in DOMAIN metrics /\ "failed_checks" \in DOMAIN metrics.eval
    THEN {metrics.eval.failed_checks[i] : i \in 1..Len(metrics.eval.failed_checks)}
    ELSE {}

\* the ids of the checks that the report of the last suite run lists as failed
report_failed_checks ==
    {eval_report.summary.failed_checks[i] : i \in 1..Len(eval_report.summary.failed_checks)}

ResultOf(action_id) ==
    CHOOSE result \in {action_results[i] : i \in 1..Len(action_results)} :
        result.action_id = action_id

\* the handler of the request fails whatever the environment does: path
\* outside the repository, unsupported selector, empty or rejected command
HandlerFails(request) ==
    LET parameters == request.parameters
        selector == IF Truthy(request.selector) THEN request.selector
                    ELSE Get(parameters, "selector", "cmd")
        cmd == strip(str(Get(parameters, "cmd", <<>>)))
    IN \/ /\ request.type \in {"read_file", "write_file"}
          /\ ~inside_repository(Get(parameters, "path", <<>>))
       \/ /\ request.type = "run"
          /\ \/ selector \notin RUN_SELECTOR_ALLOWLIST
             \/ cmd = <<>>
             \/ \E pattern \in DANGEROUS_RUN_PATTERNS : contains(lower(cmd), pattern)
             \/ ~validate_command(cmd).allowed
       \/ /\ request.type = "notify"
          /\ Get(parameters, "message", "") = ""

\* C11: every approved request handed to _execute_action gets an
\* ActionResult with both timestamps set; when the handler fails (path
\* outside the repository, unsupported selector, empty or rejected command,
\* collaborator error) its status is failed and it carries the error text;
\* no exception reaches execute_session, which goes on to the next request.
C11_HandlerFailureIsFailedResult ==
    /\ [](InSession =>
            \A k \in 1..Len(handler_calls) :
                LET request == handler_calls[k]
                    result == ResultOf(request.action_id)
                IN /\ \E i \in 1..Len(action_results) :
                          action_results[i].action_id = request.action_id
                   /\ result.started_at /\ result.finished_at
                   /\ result.status \in {"completed", "failed"}
                   /\ HandlerFails(request) => result.status = "failed"
                   /\ result.status = "failed" /\ result.output.kind = "none"
                          => result.error # None
                   /\ result.error # None => result.status = "failed")
    /\ [][(pc = "actions" /\ Len(handler_calls') > Len(handler_calls)) =>
             /\ pc' = "actions"
             /\ outcome' = outcome
             /\ Len(action_results') = Len(action_results) + 1]_vars

\* a session went on to a second request after the handler of the first
\* failed on a path outside the repository
C11_Witness ==
    /\ pc = "tail"
    /\ Len(action_results) = 2
    /\ Len(handler_calls) >= 1
    /\ handler_calls[1].action_id = action_results[1].action_id
    /\ action_results[1].status = "failed"
    /\ action_results[1].error = "path is outside repository boundary"

\* the run results of the session whose child process ended this way
RunResults(child_status) ==
    {action_results[i] : i \in
        {j \in 1..Len(action_results) :
            /\ action_results[j].output.kind = "run"
            /\ action_results[j].output.status = child_status}}

\* C12: a run action whose child process exceeds its timeout has an action
\* result of status timeout, a child that exits non-zero one of status
\* failed, and both results carry the output captured so far.
C12_TimeoutIsItsOwnStatus ==
    InSession =>
        /\ \A result \in RunResults("timeout") :
               result.status = "timeout" /\ result.output.stdout = "captured"
        /\ \A result \in RunResults("failed") :
               result.status = "failed" /\ result.output.stdout = "captured"

(***************************************************************************)
(* One execute_session call that may be cut short inside the action loop   *)
(***************************************************************************)
NextInterrupted ==
    \/ SessionStart
    \/ ProviderRun(Bootstraps, Continuations)
    \/ ProcessAction(MaxActions, Requests, Responses, {AllOk})
    \/ InterruptAction(MaxActions, Requests, Responses, {AllOk})
    \/ FinishSession(Claims, FullContext, NoTokens)

SpecInterrupted == InitSession /\ [][NextInterrupted]_vars

\* the records of the trail that the action loop writes
IsActionRecord(event) ==
    event.type \in {"action_requested", "action_approved", "action_denied", "action_result"}

ActionTrail == SelectSeq(events, IsActionRecord)

\* C13: the action records of a session's trail are, request by request in
\* request order, one action_requested, then one action_approved or
\* action_denied, then one action_result, with no other record in between;
\* while the session runs every request's three records are complete, and
\* what an interrupted session leaves is a prefix of that sequence.
C13_RequestDecisionResultOrder ==
    /\ \A i \in 1..Len(ActionTrail) :
          CASE i % 3 = 1 ->
                 /\ ActionTrail[i].type = "action_requested"
                 /\ ActionTrail[i].request.action_id[2] = (i + 2) \div 3
            [] i % 3 = 2 ->
                 /\ ActionTrail[i].type \in {"action_approved", "action_denied"}
                 /\ ActionTrail[i].request.action_id = ActionTrail[i - 1].request.action_id
                 /\ ActionTrail[i].decision.allowed = (ActionTrail[i].type = "action_approved")
            [] OTHER ->
                 /\ ActionTrail[i].type = "action_result"
                 /\ ActionTrail[i].result.action_id = ActionTrail[i - 1].request.action_id
    /\ \A i \in 1..Len(events), k \in 1..Len(events) :
          (i < k /\ IsActionRecord(events[i]) /\ IsActionRecord(events[k]))
              => \A j \in i..k : IsActionRecord(events[j])
    /\ InSession => Len(ActionTrail) = 3 * Len(action_results)

\* the session was cut short in its second iteration, after the decision
\* record and before the result record
C13_Witness ==
    /\ outcome = Raised("interrupted")
    /\ Len(ActionTrail) = 5
    /\ ActionTrail[5].type = "action_approved"

(***************************************************************************)
(* PolicyEngine.evaluate on its own: one call per contract, request,       *)
(* approver configuration and approver answer                              *)
(***************************************************************************)
\* a contract that allows reading, and running with the test selector only
ReadOnlyActions == <<AllowedAction("read_file", {}), AllowedAction("run", {"test"})>>

\* TaskEnvelope values: the constraints and the allowed-action list vary
PolicyEnvelopes ==
    {[build_task_envelope(1, FALSE) EXCEPT
         !.constraints = [@ EXCEPT !.no_network = no_network,
                                   !.allow_repo_edits = allow_repo_edits],
         !.allowed_actions = allowed_actions] :
     no_network \in BOOLEAN, allow_repo_edits \in BOOLEAN,
     allowed_actions \in {default_allowed_actions, ReadOnlyActions}}

WriteCurl == RawRequest("write_file", None, [path |-> <<"out.txt">>, cmd |-> curl_x])

DeployCurl == RawRequest("deploy", None, [cmd |-> curl_x])

PolicyRequests ==
    {ActionRequest(<<1, 1>>, raw.type, raw.selector, raw.parameters) :
     raw \in SessionRequests \cup {WriteCurl, DeployCurl}}

InitPolicy ==
    /\ pol_envelope \in PolicyEnvelopes
    /\ pol_request \in PolicyRequests
    /\ pol_approver \in Approvers
    /\ pol_response \in SessionResponses
    /\ pol_verdict = [approver_calls |-> 0]
    /\ pol_pc = "input"
    /\ ValidatorIdle /\ ProtocolIdle /\ UnitsIdle /\ FreshRepository /\ RunIdle /\ SessionIdle

\* policy_engine.evaluate(task_envelope, request)
Evaluate ==
    /\ pol_pc = "input"
    /\ pol_verdict' = evaluate(pol_envelope, pol_request, pol_approver, pol_response)
    /\ pol_pc' = "done"
    /\ UNCHANGED <<pol_envelope, pol_request, pol_approver, pol_response, secVars, unitVars,
                   rpcVars, diskVars, runVars, sessionVars>>

NextPolicy == Evaluate

SpecPolicy == InitPolicy /\ [][NextPolicy]_vars

\* the first static stage that rejects the request, in the order
\* allowed-action match, repo-edit gate, network gate
FirstFailingStage(envelope, request) ==
    LET listed == \E i \in 1..Len(envelope.allowed_actions) :
                      /\ envelope.allowed_actions[i].type = request.type
                      /\ \/ envelope.allowed_actions[i].selectors = {}
                         \/ request.selector \in {None, ""}
                         \/ request.selector \in envelope.allowed_actions[i].selectors
        edits == request.type \in {"write_file", "propose_patch"}
        network == "cmd" \in DOMAIN request.parameters
                   /\ \E token \in NETWORK_TOKENS :
                          contains(lower(request.parameters.cmd), token)
    IN IF ~listed THEN "allowed_action"
       ELSE IF edits /\ ~envelope.constraints.allow_repo_edits THEN "repo_edit"
       ELSE IF network /\ envelope.constraints.no_network THEN "network"
       ELSE "none"

\* C14: evaluate applies the static stages in the order allowed-action
\* match, repo-edit gate, network gate, and a denial carries the reason of
\* the first stage that fails; a write_file or propose_patch request of an
\* allowed type under allow_repo_edits = false is denied at stage static
\* with the allow_repo_edits reason, whatever its parameters and whether or
\* not a runtime approver is configured.
C14_FirstFailingStageWins ==
    pol_pc = "done" =>
        LET stage == FirstFailingStage(pol_envelope, pol_request)
            decision == pol_verdict.decision
        IN /\ stage # "none" =>
                  /\ ~decision.allowed
                  /\ decision.policy_stage = "static"
                  /\ ~decision.runtime_approval_required
           /\ stage = "allowed_action" => decision.reason = "action type not allowed"
           /\ stage = "repo_edit" =>
                  decision.reason = "repo edits blocked by allow_repo_edits=false"
           /\ stage = "network" =>
                  decision.reason = "network command blocked by no_network constraint"
           /\ (stage = "none" /\ ~decision.allowed) => decision.policy_stage = "runtime"

\* a write_file request that also carries a network command, under a
\* contract with allow_repo_edits = false and no_network = true and with a
\* runtime approver configured, was denied by the repo-edit gate
C14_Witness ==
    /\ pol_pc = "done"
    /\ pol_request.type = "write_file"
    /\ "cmd" \in DOMAIN pol_request.parameters
    /\ ~pol_envelope.constraints.allow_repo_edits
    /\ pol_envelope.constraints.no_network
    /\ pol_approver = "configured"
    /\ pol_verdict.decision.reason = "repo edits blocked by allow_repo_edits=false"

\* C15: the runtime-approval callback is invoked at most once per evaluate
\* call, and only for a request of a high-risk type (run, cmd, mcp_call,
\* github) that has passed the three static stages; never for a statically
\* denied request nor for another type; and a decision has policy_stage
\* runtime only when the callback was invoked.
C15_ApproverOnlyForHighRisk ==
    pol_pc = "done" =>
        LET stage == FirstFailingStage(pol_envelope, pol_request)
            high_risk == pol_request.type \in {"run", "cmd", "mcp_call", "github"}
        IN /\ pol_verdict.approver_calls \in {0, 1}
           /\ pol_verdict.approver_calls = 1 =>
                  /\ high_risk
                  /\ stage = "none"
                  /\ pol_approver = "configured"
           /\ (stage # "none" \/ ~high_risk) => pol_verdict.approver_calls = 0
           /\ (pol_verdict.decision.policy_stage = "runtime")
                  = (pol_verdict.approver_calls = 1)
           /\ (high_risk /\ stage = "none" /\ pol_approver = "configured")
                  => pol_verdict.approver_calls = 1

\* the configured approver was asked about a run request that passed the
\* static stages, and refused it
C15_Witness ==
    /\ pol_pc = "done"
    /\ pol_request.type = "run"
    /\ pol_verdict.approver_calls = 1
    /\ pol_verdict.decision.policy_stage = "runtime"
    /\ ~pol_verdict.decision.allowed

\* C16: every PolicyDecision that evaluate returns, on every path (static
\* denial, static approval, runtime approval, runtime denial), has
\* needs_orchestrator_verification = true.
C16_AlwaysNeedsVerification ==
    pol_pc = "done" => pol_verdict.decision.needs_orchestrator_verification

\* a runtime denial has been returned
C16_Witness ==
    /\ pol_pc = "done"
    /\ pol_verdict.decision.policy_stage = "runtime"
    /\ ~pol_verdict.decision.allowed
    /\ pol_verdict.decision.needs_orchestrator_verification
    /\ pol_request.type = "github"

\* the answers of the runtime approver that carry this set of mutated keys
MutatingAnswers(keys) ==
    {response \in SessionResponses :
        response.kind = "dict" /\ DOMAIN response.mutated_parameters = keys}

\* C17: when the runtime approver answers with a parameter-mutation map,
\* evaluate merges exactly those keys into the request's parameters: every
\* other key keeps its value, no key is removed, and the handler of the
\* approved action is called with the merged parameters.
C17_MutationIsAdditiveMerge ==
    InSession =>
        \A j \in 2..Len(events) :
            events[j].type \in {"action_approved", "action_denied"} =>
                LET before == events[j - 1].request.parameters
                    after == events[j].request.parameters
                    keys == events[j].decision.metadata.mutated_parameters
                IN /\ DOMAIN after = DOMAIN before \cup keys
                   /\ \A key \in DOMAIN before \ keys : after[key] = before[key]
                   /\ keys # {} =>
                          /\ events[j].decision.policy_stage = "runtime"
                          /\ \E response \in MutatingAnswers(keys) :
                                 \A key \in keys :
                                     after[key] = response.mutated_parameters[key]
                   /\ events[j].decision.allowed =>
                          \E k \in 1..Len(handler_calls) :
                              /\ handler_calls[k].action_id = events[j].request.action_id
                              /\ handler_calls[k].parameters = after

\* the approver added a cmd to a github request, which kept its summary,
\* and the handler was called with both
C17_Witness ==
    /\ InSession
    /\ \E k \in 1..Len(handler_calls) :
          /\ handler_calls[k].type = "github"
          /\ DOMAIN handler_calls[k].parameters = {"summary", "cmd"}
          /\ handler_calls[k].parameters.cmd = curl_x


(***************************************************************************)
(* The protocol client runtime on its own: initialize, start_thread and    *)
(* run_turn of one connection, against a peer that may send anything       *)
(***************************************************************************)
MaxMessages == 7

\* the lines the pipe to the child's stdin holds before a write blocks
PipeCapacity == 2

\* lines of the child's stdout that are written, queued or dequeued
MaxLines == 4

\* the fields of the runtime and the locals of its callers
Runtime ==
    [stage |-> rpc_stage, next_id |-> rpc_next_id, request |-> rpc_request,
     thread_id |-> rpc_thread_id, turn_id |-> rpc_turn_id,
     last_agent_message |-> rpc_last_agent_message, token_usage |-> rpc_token_usage,
     outcome |-> rpc_outcome,
     issued |-> rpc_issued, proc |-> rpc_proc]

\* close() that leaves the child alone
close_leaves_running(proc) == {proc}

\* close(): a child that still runs is terminated, and killed if it has not
\* gone within two seconds
close(proc) == IF proc = "running" THEN {"terminated", "killed"} ELSE {proc}

\* an exception that leaves initialize, start_thread or run_turn
raise(rt, exception, error) ==
    [rt EXCEPT !.stage = "failed", !.request = NoRequest,
               !.outcome = [status |-> exception, error |-> error]]

\* request(), up to its waiting loop: take the next id and send the
\* request; _send raises when the child has exited
send_request(rt, method, stage) ==
    LET taken == next_request_id(rt.next_id)
        issued == [rt EXCEPT !.next_id = taken.next_id, !.issued = Append(@, taken.next_id)]
    IN IF rt.proc # "running"
       THEN raise(issued, "RuntimeError", "codex app-server exited early")
       ELSE [issued EXCEPT !.request = [id |-> taken.request_id, method |-> method],
                           !.stage = stage]

\* A final agent message is a sequence of characters.  The characters of
\* the messages examined are the brace pair, the digit 7, the space, the
\* backtick and letters; they include no quote, so that the JSON values
\* among them are the numbers 7, 77, ... and the empty object.
\* the backtick, which a string of this notation cannot hold
BACKTICK == "<backtick>"

FENCE == <<BACKTICK, BACKTICK, BACKTICK>>

JSON_TAG == <<"j", "s", "o", "n">>

\* s[i:].startswith(p) (1-based i)
startswith_at(s, i, p) == i + Len(p) - 1 <= Len(s) /\ SubSeq(s, i, i + Len(p) - 1) = p

\* where \s* stops when it starts at i: the first position from i on that
\* holds no whitespace, Len(s) + 1 if there is none
skip_space(s, i) ==
    LET stops == {k \in i..(Len(s) + 1) : k = Len(s) + 1 \/ ~IsSpace(s[k])}
    IN CHOOSE k \in stops : \A other \in stops : k <= other

\* json.loads(s): the type of the value, or "invalid" for JSONDecodeError
json_loads(s) ==
    LET body == strip(s) IN
    IF body # <<>> /\ \A i \in 1..Len(body) : body[i] = "7" THEN "number"
    ELSE IF /\ Len(body) >= 2
            /\ body[1] = "{"
            /\ body[Len(body)] = "}"
            /\ \A i \in 2..(Len(body) - 1) : IsSpace(body[i])
    THEN "object"
    ELSE "invalid"

\* ```(?:json)?\s*\{ matched at i: the position of the brace, or 0
fence_open(s, i) ==
    LET after_tag == IF startswith_at(s, i + 3, JSON_TAG) THEN i + 7 ELSE i + 3
    IN IF startswith_at(s, i, FENCE) /\ startswith_at(s, skip_space(s, after_tag), <<"{">>)
       THEN skip_space(s, after_tag) ELSE 0

\* \}\s*``` matched after the brace at open: the positions of the closing brace
fence_close(s, open) ==
    {last \in (open + 1)..Len(s) :
        s[last] = "}" /\ startswith_at(s, skip_space(s, last + 1), FENCE)}

\* re.search(r"```(?:json)?\s*(\{.*\})\s*```", s, flags=re.DOTALL): group(1)
\* of the leftmost match, .* taking as much as it can, or None
search_fence(s) ==
    LET starts == {i \in 1..Len(s) :
                      fence_open(s, i) # 0 /\ fence_close(s, fence_open(s, i)) # {}}
    IN IF starts = {} THEN NoneText
       ELSE LET start == CHOOSE i \in starts : \A other \in starts : i <= other
                closes == fence_close(s, fence_open(s, start))
            IN SubSeq(s, fence_open(s, start),
                      CHOOSE last \in closes : \A other \in closes : last >= other)

\* what _parse_json_object_from_text raises, or no exception
Parsed(exception, error) == [exception |-> exception, error |-> error]

\* isinstance(parsed, dict), for a value of any JSON type
must_be_object_any(parsed) == Parsed(None, None)

\* if not isinstance(parsed, dict): raise
must_be_object(parsed) ==
    IF parsed # "object"
    THEN Parsed("RuntimeError", "codex protocol final message JSON must be an object")
    ELSE Parsed(None, None)

\* _parse_json_object_from_text(text): the exception it raises, if any; the
\* JSONDecodeError of the second json.loads is not caught
parse_json_object_from_text(text) ==
    IF strip(text) = <<>>
    THEN Parsed("RuntimeError", "codex protocol returned an empty final message")
    ELSE IF json_loads(strip(text)) # "invalid" THEN must_be_object(json_loads(strip(text)))
    ELSE IF search_fence(strip(text)) = NoneText
    THEN Parsed("RuntimeError", "codex protocol final message is not valid JSON")
    ELSE IF json_loads(search_fence(strip(text))) = "invalid"
    THEN Parsed("JSONDecodeError", "json.loads(fence.group(1))")
    ELSE must_be_object(json_loads(search_fence(strip(text))))

\* the end of run_turn: parse the last agent message and return
finish_turn(rt) ==
    LET parsed == parse_json_object_from_text(rt.last_agent_message)
    IN IF parsed.exception # None THEN raise(rt, parsed.exception, parsed.error)
       ELSE [rt EXCEPT !.stage = "returned", !.request = NoRequest,
                       !.outcome = [status |-> "returned", error |-> None]]

\* what the caller of request() does with the result it returned
after_request(rt, result) ==
    CASE rt.stage = "initialize" -> send_request(rt, "thread/start", "thread_start")
      [] rt.stage = "thread_start" ->
            IF result.thread = None
            THEN raise(rt, "RuntimeError", "thread/start response missing thread.id")
            ELSE send_request([rt EXCEPT !.thread_id = result.thread], "turn/start",
                              "turn_start")
      [] rt.stage = "turn_start" ->
            IF result.turn.type # "str"
            THEN raise(rt, "RuntimeError", "turn/start response missing turn.id")
            ELSE [rt EXCEPT !.turn_id = result.turn.text, !.stage = "turn_wait",
                            !.request = NoRequest]
      [] rt.stage = "thread_read" ->
            finish_turn([rt EXCEPT !.last_agent_message =
                            IF id_text(result.turn) = rt.turn_id /\ strip(result.text) # <<>>
                            THEN result.text ELSE @])

\* run_turn after its waiting loop ended with break
after_turn(rt) ==
    IF rt.last_agent_message = <<>> THEN send_request(rt, "thread/read", "thread_read")
    ELSE finish_turn(rt)

\* the stages in which the client is blocked in _dequeue
WaitingStages == {"initialize", "thread_start", "turn_start", "turn_wait", "thread_read"}

Becomes(rt) ==
    /\ rpc_stage' = rt.stage
    /\ rpc_next_id' = rt.next_id
    /\ rpc_request' = rt.request
    /\ rpc_thread_id' = rt.thread_id
    /\ rpc_turn_id' = rt.turn_id
    /\ rpc_last_agent_message' = rt.last_agent_message
    /\ rpc_token_usage' = rt.token_usage
    /\ rpc_outcome' = rt.outcome
    /\ rpc_issued' = rt.issued
    /\ rpc_proc' \in (IF rt.stage \in {"returned", "failed"} THEN close(rt.proc) ELSE {rt.proc})

OtherUnchanged == UNCHANGED <<secVars, polVars, unitVars, diskVars, runVars, sessionVars>>

\* _send wrote a line on the way to rt: a reply, or the request that rt waits
\* for (its id was taken and _send did not raise)
writes(rt, replied) == rt.stage # "failed" /\ (replied \/ rt.next_id # rpc_next_id)

\* the client goes on as rt; if it wrote a line while unread lines filled
\* the pipe, proc.stdin.write of _send (line 487) does not return, and the
\* client is at rt only once the child has read a line
Written(rt, unread, replied) ==
    /\ Becomes(IF writes(rt, replied) /\ unread >= PipeCapacity
               THEN [rt EXCEPT !.stage = "sending"] ELSE rt)
    /\ rpc_resume' = IF writes(rt, replied) /\ unread >= PipeCapacity THEN rt.stage ELSE None
    /\ rpc_pipe' = IF writes(rt, replied) /\ unread < PipeCapacity THEN unread + 1 ELSE unread

\* the child reads a line, and the write that waited for room goes through
WriteCompletes ==
    /\ rpc_stage = "sending"
    /\ rpc_stage' = rpc_resume
    /\ rpc_resume' = None
    /\ UNCHANGED <<rpc_next_id, rpc_request, rpc_thread_id, rpc_turn_id, rpc_notifications,
                   rpc_last_agent_message, rpc_token_usage, rpc_outcome, rpc_proc,
                   rpc_issued, rpc_steps, rpc_last, rpc_heard, rpc_pipe, rpc_stdout,
                   rpc_queue>>
    /\ OtherUnchanged

\* _run_codex_protocol_json starts the runtime and calls initialize()
Connect ==
    /\ rpc_stage = "new"
    /\ Written(send_request(Runtime, "initialize", "initialize"), rpc_pipe, FALSE)
    /\ UNCHANGED <<rpc_notifications, rpc_steps, rpc_last, rpc_heard, rpc_stdout, rpc_queue>>
    /\ OtherUnchanged

\* the client takes one item from the queue and handles it, up to the next
\* point where it waits; reads are the numbers of lines that the child may
\* have left unread in its stdin by then.  messages are the items that
\* queue.get may return: the head of the queue where the reader is part of
\* the specification, what the reader may have put there where it is not
Dequeue(messages, reads) ==
    /\ rpc_stage \in WaitingStages
    /\ rpc_steps < MaxMessages
    /\ \E payload \in messages, unread \in reads :
        LET in_turn == rpc_stage = "turn_wait"
            collecting == rpc_stage \in {"turn_start", "thread_read"}
            failure == dequeue_error(payload)
            rstep == request_step(payload, rpc_request.id, collecting)
            tstep == turn_step(payload, rpc_turn_id, rpc_last_agent_message, rpc_token_usage)
            answers == IF in_turn THEN tstep.replies ELSE rstep.replies
            send_fails == failure = None /\ answers # <<>> /\ rpc_proc # "running"
            effect == IF failure # None THEN "stream_error"
                      ELSE IF send_fails THEN "send_error"
                      ELSE IF in_turn THEN tstep.effect ELSE rstep.effect
            replies == IF failure # None \/ send_fails THEN <<>> ELSE answers
            notified == failure = None /\ (IF in_turn THEN tstep.notified ELSE rstep.notified)
            listened == [Runtime EXCEPT !.last_agent_message =
                            IF in_turn /\ failure = None THEN tstep.last_agent_message ELSE @,
                                        !.token_usage =
                            IF in_turn /\ failure = None THEN tstep.token_usage ELSE @]
        IN /\ Written(CASE failure # None -> raise(Runtime, "RuntimeError", failure)
                        [] send_fails ->
                            raise(Runtime, "RuntimeError", "codex app-server exited early")
                        [] effect = "rejected" -> raise(Runtime, "RuntimeError", rstep.error)
                        [] effect = "resolved" -> after_request(Runtime, rstep.result)
                        [] effect = "break" -> after_turn(listened)
                        [] OTHER -> listened,
                      unread, replies # <<>>)
           /\ rpc_notifications' = IF notified THEN Append(rpc_notifications, payload.method)
                                   ELSE rpc_notifications
           /\ rpc_heard' = IF notified /\ rpc_stage \in {"turn_start", "turn_wait"}
                           THEN hears(rpc_heard, payload) ELSE rpc_heard
           /\ rpc_last' = [payload |-> payload, stage |-> rpc_stage, request |-> rpc_request,
                           turn_id |-> rpc_turn_id, replies |-> replies, effect |-> effect,
                           notified |-> notified]
    /\ rpc_steps' = rpc_steps + 1
    /\ rpc_queue' = IF rpc_queue = <<>> THEN rpc_queue ELSE Tail(rpc_queue)
    /\ UNCHANGED rpc_stdout
    /\ OtherUnchanged

\* the deadline of request() or of the waiting loop passes with nothing to
\* dequeue
Timeout ==
    /\ rpc_stage \in WaitingStages
    /\ \E error \in {IF rpc_stage = "turn_wait" THEN "timed out waiting for turn completion"
                     ELSE "timed out waiting for response",
                     "timed out waiting for codex protocol event"} :
        Becomes(raise(Runtime, "TimeoutError", error))
    /\ rpc_last' = [NoDequeue EXCEPT !.stage = rpc_stage, !.request = rpc_request,
                                     !.turn_id = rpc_turn_id, !.effect = "timeout"]
    /\ UNCHANGED <<rpc_notifications, rpc_steps, rpc_heard, rpc_pipe, rpc_resume, rpc_stdout,
                   rpc_queue>>
    /\ OtherUnchanged

\* the end of the child's stdout, as an item of the stream and of the queue
EndOfStream == Payload("eof", Absent, Absent, NoResult, Absent, NoParams)

\* _read_stdout on one item of the stream: a blank line and a line that
\* parses to something else than an object are dropped; a malformed line,
\* an object and, once the stream has ended, the _eof marker are put on
\* the queue
read_stdout(queue, line) ==
    IF line.stream \in {"blank", "scalar"} THEN queue ELSE Append(queue, line)

\* the reader thread handles the next line of the child's stdout
ReadStdout ==
    /\ rpc_stdout # <<>>
    /\ rpc_queue' = read_stdout(rpc_queue, Head(rpc_stdout))
    /\ rpc_stdout' = Tail(rpc_stdout)
    /\ UNCHANGED <<rpc_stage, rpc_next_id, rpc_request, rpc_thread_id, rpc_turn_id,
                   rpc_notifications, rpc_last_agent_message, rpc_token_usage, rpc_outcome,
                   rpc_proc, rpc_issued, rpc_steps, rpc_last, rpc_heard, rpc_pipe, rpc_resume>>
    /\ OtherUnchanged

\* the child writes a line to its stdout
ChildWrites(lines) ==
    /\ rpc_proc = "running"
    /\ rpc_stage \in WaitingStages
    /\ Len(rpc_stdout) + Len(rpc_queue) + rpc_steps < MaxLines
    /\ \E line \in lines : rpc_stdout' = Append(rpc_stdout, line)
    /\ UNCHANGED <<rpc_stage, rpc_next_id, rpc_request, rpc_thread_id, rpc_turn_id,
                   rpc_notifications, rpc_last_agent_message, rpc_token_usage, rpc_outcome,
                   rpc_proc, rpc_issued, rpc_steps, rpc_last, rpc_heard, rpc_pipe, rpc_resume,
                   rpc_queue>>
    /\ OtherUnchanged

\* the app-server child process exits while the client is connected, and
\* its stdout ends after what it has written; a write that waits for room
\* in the pipe then fails with BrokenPipeError
ChildExits ==
    /\ rpc_stage \in WaitingStages \cup {"new", "sending"}
    /\ rpc_proc = "running"
    /\ rpc_proc' = "exited"
    /\ rpc_stage' = IF rpc_stage = "sending" THEN "failed" ELSE rpc_stage
    /\ rpc_request' = IF rpc_stage = "sending" THEN NoRequest ELSE rpc_request
    /\ rpc_outcome' = IF rpc_stage = "sending"
                      THEN [status |-> "BrokenPipeError", error |-> "Broken pipe"]
                      ELSE rpc_outcome
    /\ rpc_resume' = None
    /\ rpc_stdout' = Append(rpc_stdout, EndOfStream)
    /\ UNCHANGED <<rpc_next_id, rpc_thread_id, rpc_turn_id, rpc_notifications,
                   rpc_last_agent_message, rpc_token_usage, rpc_issued, rpc_steps, rpc_last,
                   rpc_heard, rpc_pipe, rpc_queue>>
    /\ OtherUnchanged

\* final agent messages: an object, and words
ObjectText == <<"{", "}">>

ProseText == <<"x", " ", "x">>

\* what a result the peer sends may be
PeerResults ==
    {ResultObject("th1", JsonString("t1"), ObjectText),
     ResultObject("th1", JsonString("7"), ProseText),
     ResultObject("th1", JsonString(""), <<>>),
     ResultObject(None, JsonNumber(7), ObjectText),
     ResultNull, ResultNumber}

\* requests of the peer
PeerRequests(pending) ==
    {Payload("line", method, "srv-1", NoResult, Absent, NoParams) :
        method \in {"item/commandExecution/requestApproval", "execCommandApproval",
                    "item/tool/requestUserInput", "item/tool/call", "custom/unknown"}}
    \cup {Payload("line", "item/fileChange/requestApproval", None, NoResult, Absent, NoParams),
          Payload("line", "applyPatchApproval", pending, NoResult, Absent, NoParams)}

\* responses of the peer: to the pending request, to the request before it
\* and to a request that was never sent
PeerResponses(pending, stale) ==
    {Payload("line", Absent, pending, result, Absent, NoParams) : result \in PeerResults}
    \cup {Payload("line", Absent, pending, NoResult, "boom", NoParams),
          Payload("line", Absent, pending, ResultObject("th1", JsonString("t1"), <<>>), "boom",
                  NoParams),
          Payload("line", "custom/echo", pending, ResultObject("th1", JsonString("t1"), <<>>),
                  Absent, NoParams),
          Payload("line", Absent, stale, ResultObject("th1", JsonString("t1"), <<>>), Absent,
                  NoParams),
          Payload("line", Absent, "req-9", NoResult, "boom", NoParams),
          Payload("line", Absent, Absent, ResultNumber, Absent, NoParams)}

\* notifications of the peer
PeerNotifications ==
    {Payload("line", "turn/completed", Absent, NoResult, Absent, [turn |-> turn, text |-> <<>>, usage |-> Absent]) :
        turn \in {JsonString("t1"), JsonString("t2"), JsonString("7"), JsonNumber(7),
                  JsonNull, JsonAbsent}}
    \cup {Payload("line", "item/completed", Absent, NoResult, Absent,
                  [turn |-> JsonAbsent, text |-> text, usage |-> Absent]) : text \in {ObjectText, ProseText}}
    \cup {Payload("line", "thread/tokenUsage/updated", Absent, NoResult, Absent,
                  [NoParams EXCEPT !.usage = usage]) : usage \in {Absent, "usage-1", "usage-2"}}

\* what _read_stdout may put on the queue while the client waits
PeerMessages ==
    LET pending == IF rpc_request.id = None THEN "req-0" ELSE rpc_request.id
        stale == "req-" \o ToString(IF rpc_next_id > 0 THEN rpc_next_id - 1 ELSE 0)
    IN PeerRequests(pending) \cup PeerResponses(pending, stale) \cup PeerNotifications
       \cup {Payload("eof", Absent, Absent, NoResult, Absent, NoParams),
             Payload("malformed", Absent, Absent, NoResult, Absent, NoParams)}

InitProtocol ==
    /\ ValidatorIdle /\ PolicyIdle /\ UnitsIdle /\ FreshRepository /\ RunIdle /\ SessionIdle
    /\ rpc_stage = "new"
    /\ rpc_next_id = 0
    /\ rpc_request = NoRequest
    /\ rpc_thread_id = None
    /\ rpc_turn_id = None
    /\ rpc_notifications = <<>>
    /\ rpc_last_agent_message = <<>>
    /\ rpc_token_usage = NoUsage
    /\ rpc_heard = NoHeard
    /\ rpc_outcome = [status |-> "none", error |-> None]
    /\ rpc_proc = "running"
    /\ rpc_issued = <<>>
    /\ rpc_steps = 0
    /\ rpc_last = NoDequeue
    /\ rpc_pipe = 0
    /\ rpc_resume = None
    /\ rpc_stdout = <<>>
    /\ rpc_queue = <<>>

\* a child that has read every line the client wrote
ReadsAtOnce == {0}

NextProtocol ==
    \/ Connect
    \/ Dequeue(PeerMessages, ReadsAtOnce)
    \/ Timeout
    \/ ChildExits

SpecProtocol == InitProtocol /\ [][NextProtocol]_vars


(***************************************************************************)
(* Properties of the protocol client runtime (under SpecProtocol)          *)
(***************************************************************************)
\* the message the client dequeued last has both method and id and neither
\* result nor error, and the child was there to be answered
LastIsPeerRequest ==
    /\ rpc_last.effect \notin {"none", "timeout", "stream_error", "send_error"}
    /\ rpc_last.payload.method # Absent
    /\ rpc_last.payload.id # Absent
    /\ rpc_last.payload.result.kind = "absent"
    /\ rpc_last.payload.error = Absent

\* the payload the client must answer a peer request of this method with
RequiredAnswer(method) ==
    CASE method \in {"item/commandExecution/requestApproval",
                     "item/fileChange/requestApproval"} -> {"decision: accept"}
      [] method \in {"execCommandApproval", "applyPatchApproval"} -> {"decision: approved"}
      [] method = "item/tool/requestUserInput" -> {"answers: {}"}
      [] method = "item/tool/call" -> {"success: false"}
      [] OTHER -> {Absent}

\* C18: while the client waits in request() or in the turn loop, a peer
\* message with method and id and neither result nor error is answered with
\* exactly one reply of the same id before the next message is dequeued
\* (approvals accepted, user input answered empty, tool calls refused); it
\* is not recorded as a notification and does not resolve the pending
\* request.
C18_PeerRequestAnsweredOnce ==
    LastIsPeerRequest =>
        /\ Len(rpc_last.replies) = 1
        /\ rpc_last.replies[1].id = rpc_last.payload.id
        /\ rpc_last.replies[1].result \in RequiredAnswer(rpc_last.payload.method)
        /\ ~rpc_last.notified
        /\ rpc_stage = rpc_last.stage
        /\ rpc_request = rpc_last.request


\* the stages in which the client waits inside request()
RequestStages == {"initialize", "thread_start", "turn_start", "thread_read"}

\* every request id issued on the connection is greater than all before it
IdsIncrease ==
    /\ \A i, j \in DOMAIN rpc_issued : i < j => rpc_issued[i] < rpc_issued[j]
    /\ rpc_request # NoRequest =>
        rpc_request.id = "req-" \o ToString(rpc_issued[Len(rpc_issued)])

\* the client dequeued a message while it waited inside request()
LastInRequest == rpc_last.stage \in RequestStages /\ rpc_last.payload.stream = "line"

\* the message dequeued last carries the id of the pending request and a
\* result or an error
LastMatchesPending ==
    /\ rpc_last.payload.id = rpc_last.request.id
    /\ (rpc_last.payload.result.kind # "absent" \/ rpc_last.payload.error # Absent)

\* request() raised the protocol error with this text
RejectedWith(error) ==
    /\ rpc_last.effect = "rejected"
    /\ rpc_stage = "failed"
    /\ rpc_outcome = [status |-> "RuntimeError", error |-> error]

\* C19 as stated: ids increase; a message ends request() only if it carries
\* the id of the request and a result or an error; a result resolves the
\* request and an error rejects it as a protocol error; a response with
\* another id neither resolves nor rejects it.
C19_ResultResolvesErrorRejects ==
    /\ IdsIncrease
    /\ LastInRequest =>
        /\ rpc_last.effect \in {"resolved", "rejected"} => LastMatchesPending
        /\ LastMatchesPending /\ rpc_last.payload.error = Absent => rpc_last.effect = "resolved"
        /\ LastMatchesPending /\ rpc_last.payload.error # Absent =>
            RejectedWith("codex protocol error")

\* C19, amended: ids increase; a message ends request() only if it carries
\* the id of the request and a result or an error; an error rejects the
\* request as a protocol error, a result that is an object or null resolves
\* it, and a result of another type rejects it as "not an object"; a message
\* that does not match leaves the request pending, unless it is a peer
\* request that cannot be answered because the child has exited; a deadline,
\* the end of the stream and a malformed line fail the request too.
C19_ObjectResultResolves ==
    /\ IdsIncrease
    /\ LastInRequest =>
        /\ rpc_last.effect \in {"resolved", "rejected"} => LastMatchesPending
        /\ LastMatchesPending /\ rpc_last.payload.error # Absent =>
            RejectedWith("codex protocol error")
        /\ LastMatchesPending /\ rpc_last.payload.error = Absent =>
            IF rpc_last.payload.result.kind \in {"object", "null"}
            THEN rpc_last.effect = "resolved"
            ELSE RejectedWith("codex protocol result is not an object")
        /\ ~LastMatchesPending =>
            /\ rpc_last.effect \notin {"resolved", "rejected"}
            /\ rpc_last.effect # "send_error" =>
                rpc_request = rpc_last.request /\ rpc_stage = rpc_last.stage
    /\ (rpc_last.stage \in RequestStages
        /\ rpc_last.effect \in {"timeout", "stream_error", "send_error"}) =>
        rpc_stage = "failed" /\ rpc_outcome.status \in {"TimeoutError", "RuntimeError"}

\* the third request of the connection was rejected because its response
\* carried a result that is not an object
C19_Witness ==
    /\ LastInRequest
    /\ LastMatchesPending
    /\ rpc_last.payload.result.kind = "number"
    /\ RejectedWith("codex protocol result is not an object")
    /\ rpc_issued = <<1, 2, 3>>


\* the client dequeued a message while it waited in the loop of run_turn
LastInTurnLoop == rpc_last.stage = "turn_wait" /\ rpc_last.payload.stream = "line"

\* the message dequeued last is a turn-completed notification
LastIsTurnCompleted ==
    /\ rpc_last.payload.method = "turn/completed"
    /\ rpc_last.payload.id = Absent

\* the loop of run_turn ended with break on the message dequeued last
LeftTurnLoop == rpc_last.effect = "break" /\ rpc_stage \in {"thread_read", "returned", "failed"}

\* the deadline passed while the client waited in the loop of run_turn
TurnTimedOut ==
    /\ rpc_last.stage = "turn_wait" /\ rpc_last.effect = "timeout"
    /\ rpc_stage = "failed"
    /\ rpc_outcome.status = "TimeoutError"

\* C20 as stated: the waiting loop of run_turn ends successfully only on a
\* turn-completed notification whose turn id equals the id that turn-start
\* returned; a turn-completed notification for another turn id does not end
\* it; when the deadline passes first the turn fails with a timeout.
C20_TurnEndsOnEqualId ==
    /\ LastInTurnLoop =>
        /\ LeftTurnLoop =>
            LastIsTurnCompleted /\ rpc_last.payload.params.turn = JsonString(rpc_last.turn_id)
        /\ LastIsTurnCompleted /\ rpc_last.payload.params.turn # JsonString(rpc_last.turn_id) =>
            rpc_stage = "turn_wait"
    /\ rpc_last.stage = "turn_wait" /\ rpc_last.effect = "timeout" => TurnTimedOut

\* the text the client compares a turn id by: a missing id is the empty
\* text, any other value its rendering
TurnIdText(value) ==
    CASE value.type = "absent" -> ""
      [] value.type = "null" -> "None"
      [] OTHER -> value.text

\* C20, amended: the waiting loop of run_turn ends successfully only on a
\* turn-completed notification whose turn id, taken as text, equals the id
\* that turn-start returned; one whose id text differs does not end it; when
\* the deadline passes first the turn fails with a timeout.
C20_TurnEndsOnEqualIdText ==
    /\ LastInTurnLoop =>
        /\ LeftTurnLoop =>
            LastIsTurnCompleted /\ TurnIdText(rpc_last.payload.params.turn) = rpc_last.turn_id
        /\ LastIsTurnCompleted /\ TurnIdText(rpc_last.payload.params.turn) # rpc_last.turn_id =>
            rpc_stage = "turn_wait" /\ rpc_turn_id = rpc_last.turn_id
    /\ rpc_last.stage = "turn_wait" /\ rpc_last.effect = "timeout" => TurnTimedOut

\* a turn-completed notification that carries the number 7 ended the turn
\* that turn-start named "7", after a turn-completed notification of another
\* turn had been recorded
C20_Witness ==
    /\ LastInTurnLoop /\ LeftTurnLoop /\ LastIsTurnCompleted
    /\ rpc_last.turn_id = "7"
    /\ rpc_last.payload.params.turn = JsonNumber(7)
    /\ Len(SelectSeq(rpc_notifications, LAMBDA method : method = "turn/completed")) >= 2


\* initialize, start_thread or run_turn was left by one of the protocol
\* faults: a timeout, an explicit peer error, the end of the stream or the
\* exit of the child, a final message that is not a JSON object
ProtocolFault ==
    /\ rpc_stage = "failed"
    /\ \/ rpc_outcome.status = "TimeoutError"
       \/ /\ rpc_outcome.status = "RuntimeError"
          /\ rpc_outcome.error \in {"codex protocol error",
                                    "codex app-server stream ended unexpectedly",
                                    "codex app-server exited early",
                                    "codex protocol returned an empty final message",
                                    "codex protocol final message is not valid JSON",
                                    "codex protocol final message JSON must be an object"}
       \/ rpc_outcome.status = "JSONDecodeError"

\* C21: each protocol fault aborts the in-flight turn without retry: the
\* fault is raised to the caller, the child process is shut down, and from
\* then on no request is sent on the connection and the turn is not sent
\* again.
C21_FaultAbortsWithoutRetry ==
    /\ [](ProtocolFault =>
            rpc_request = NoRequest /\ rpc_proc \in {"exited", "terminated", "killed"})
    /\ [][ProtocolFault =>
            /\ rpc_stage' = "failed"
            /\ rpc_outcome' = rpc_outcome
            /\ rpc_issued' = rpc_issued
            /\ rpc_next_id' = rpc_next_id
            /\ rpc_request' = NoRequest]_vars

\* the final message read back with the fourth request was not JSON, and the
\* child had to be killed
C21_Witness ==
    /\ ProtocolFault
    /\ rpc_outcome.error = "codex protocol final message is not valid JSON"
    /\ rpc_issued = <<1, 2, 3, 4>>
    /\ rpc_proc = "killed"


(***************************************************************************)
(* Properties of the run controller under faults (under Spec)              *)
(***************************************************************************)
\* the faults with which provider.connect and provider.run leave a session
ProviderFaults == {Raised("provider connection failed"), Raised("provider run failed")}

\* C22: when a session ends in a protocol fault the run controller halts:
\* the fault leaves run_task, which starts no further session, does not run
\* the session again and does not invoke the evaluation suite.
C22_FaultHaltsRun ==
    /\ [](outcome \in ProviderFaults => pc = "idle")
    /\ [][outcome = Running /\ outcome' \in ProviderFaults =>
            /\ pc' = "idle"
            /\ sessions' = sessions
            /\ session_count' = session_count
            /\ eval_report' = eval_report
            /\ metrics' = metrics]_vars

\* the second session of an invocation ended in a fault of provider.run
C22_Witness ==
    /\ outcome = Raised("provider run failed")
    /\ pc = "idle"
    /\ sessions = 1
    /\ events # <<>> /\ events[Len(events)].type = "session_started"


\* C23: the total number of sessions executed for a run never exceeds
\* max_sessions, the sessions executed before a resume_task call included:
\* a session is counted for the run only while the total stays within the
\* cap of the invocation that executes it.
C23_TotalSessionsCapped ==
    [][session_count' > session_count => session_count' <= max_sessions]_vars


\* every sub-task of the ledger is done, and there is at least one
LedgerFullyDone ==
    /\ ledger.exists
    /\ ledger.sub_tasks # <<>>
    /\ \A i \in 1..Len(ledger.sub_tasks) : ledger.sub_tasks[i].status

\* the eval_completed records in events.jsonl: one for each invocation of
\* the evaluation suite
EvalRuns(records) == Len(SelectSeq(records, LAMBDA record : record.type = "eval_completed"))

\* C24: when the session loop has exited, run_task invokes the evaluation
\* suite exactly once if the ledger is fully done (also when no session was
\* executed) and not at all otherwise; it is invoked nowhere else.
C24_EvalOnceWhenLedgerDone ==
    [][/\ pc = "gate" =>
            /\ pc' = "idle"
            /\ EvalRuns(events') = EvalRuns(events) + (IF LedgerFullyDone THEN 1 ELSE 0)
            /\ LedgerFullyDone <=> (eval_report' = outcome'.eval /\ eval_report'.written)
            /\ ~LedgerFullyDone => eval_report' = eval_report
       /\ pc # "gate" => EvalRuns(events') <= EvalRuns(events) /\ eval_report' = eval_report]_vars

\* a resume of a complete ledger ran the evaluation suite again without
\* executing a session
C24_Witness ==
    /\ pc = "idle"
    /\ outcome.status = "returned"
    /\ resumes = 1
    /\ sessions = 0
    /\ LedgerFullyDone
    /\ EvalRuns(events) = 1
    /\ events[1].type = "eval_completed"


(***************************************************************************)
(* fork_run on its own, on run directories in several states               *)
(***************************************************************************)
\* fork_run calls
MaxForks == 2

\* run ids that name runs before the first call, and the ids fork_run makes up
RunIds == {"r1", "r2"}

AllRunIds == RunIds \cup {default_target(id) : id \in RunIds}

\* a run with two sessions, metrics and one snapshot
RunDirA ==
    [exists |-> TRUE,
     files |-> [name \in COPIED_FILES |->
                   IF name = "events.jsonl" THEN FileOf(<<"session_started", "session_completed">>)
                   ELSE FileOf(<<"A">>)],
     trees |-> [name \in COPIED_TREES |->
                   IF name = "snapshots" THEN TreeOf({[name |-> "session_1", lines |-> <<"A">>]})
                   ELSE TreeOf({})],
     fork |-> NoFile]

\* a run whose first session faulted: no usage and no metrics yet, two
\* snapshots and a checkpoint
RunDirB ==
    [exists |-> TRUE,
     files |-> [name \in COPIED_FILES |->
                   IF name = "events.jsonl" THEN FileOf(<<"session_started">>)
                   ELSE IF name \in {"usage.json", "metrics.json"} THEN NoFile
                   ELSE FileOf(<<"B">>)],
     trees |-> [name \in COPIED_TREES |->
                   IF name = "snapshots"
                   THEN TreeOf({[name |-> "session_1", lines |-> <<"B">>],
                                [name |-> "session_2", lines |-> <<"B">>]})
                   ELSE TreeOf({[name |-> "checkpoint_1", lines |-> <<"B">>]})],
     fork |-> NoFile]

RunDirs == {NoRunDir, mkdir(NoRunDir), RunDirA, RunDirB}

InitFork ==
    /\ \E first \in RunDirs, second \in RunDirs :
          fork_runs = [id \in AllRunIds |->
                          IF id = "r1" THEN first ELSE IF id = "r2" THEN second ELSE NoRunDir]
    /\ fork_last_run_id = "r1"
    /\ fork_outcome = NoOutcome
    /\ fork_call = <<>>
    /\ fork_before = <<>>
    /\ fork_count = 0
    /\ ValidatorIdle /\ PolicyIdle /\ ProtocolIdle /\ RpiInitIdle
    /\ FreshRepository /\ RunIdle /\ SessionIdle

\* one fork_run call, with touch_state at its end
ForkRun(sources, targets) ==
    /\ fork_count < MaxForks
    /\ \E source_run_id \in sources, target_run_id \in targets :
          LET forked == fork_run(fork_runs, source_run_id, target_run_id)
          IN /\ fork_runs' = forked.runs
             /\ fork_last_run_id' = IF forked.raised THEN fork_last_run_id ELSE forked.target
             /\ fork_outcome' = IF forked.raised THEN Raised(forked.error)
                                ELSE [status |-> "returned", source_run_id |-> source_run_id,
                                      target_run_id |-> forked.target]
             /\ fork_call' = [source |-> source_run_id, given |-> target_run_id,
                              target |-> forked.target]
    /\ fork_before' = fork_runs
    /\ fork_count' = fork_count + 1
    /\ UNCHANGED <<secVars, polVars, rpcVars, rpiVars, diskVars, runVars, sessionVars>>

NextFork == ForkRun(RunIds, RunIds \cup {None})

SpecFork == InitFork /\ [][NextFork]_vars

\* the last fork_run call returned
Forked == fork_outcome.status = "returned"

\* what the target run must hold if it is a copy of the source as the source
\* was before the call: its files and trees, and its trail with the
\* run_forked record appended
CopyOf(source_dir) ==
    [exists |-> TRUE,
     files |-> [source_dir.files EXCEPT !["events.jsonl"] = FileOf(Append(@.lines, "run_forked"))],
     trees |-> source_dir.trees]

\* C25: fork_run is a pure copy: it executes no session and no action, the
\* source run and the ledger are as before, and the target run holds copies
\* of the source's artifacts, its trail differing only by the appended
\* run_forked record.
C25_ForkIsPureCopy ==
    Forked =>
        LET target_dir == fork_runs[fork_call.target] IN
        /\ fork_runs[fork_call.source] = fork_before[fork_call.source]
        /\ [exists |-> target_dir.exists, files |-> target_dir.files, trees |-> target_dir.trees]
               = CopyOf(fork_before[fork_call.source])
        /\ pc = "idle" /\ sessions = 0 /\ session_count = 0 /\ handler_calls = <<>>
        /\ ledger = NoLedger /\ events = <<>>


(***************************************************************************)
(* init_rpi_artifacts on its own: calls with and without force on          *)
(* instruction directories in every state of initialisation                *)
(***************************************************************************)
MaxInits == 3

MarkdownFiles == {"absent", "pending", "generated"}

LedgerFiles == {NoLedger, LedgerOf(default_sub_tasks), LedgerOf(normalize_feature_payload(ListAB))}

LegacyDirs ==
    {NoLegacy, LegacyOf("absent", "absent", NoLedger), LegacyOf("generated", "absent", NoLedger),
     LegacyOf("generated", "generated", LedgerOf(normalize_feature_payload(ListB2)))}

InitInit ==
    /\ research \in MarkdownFiles
    /\ plan \in MarkdownFiles
    /\ ledger \in LedgerFiles
    /\ rpi_legacy \in LegacyDirs
    /\ rpi_outputs = NoOutcome
    /\ rpi_before = <<>>
    /\ rpi_calls = 0
    /\ session_count = 0 /\ trail = {} /\ started = <<>> /\ events = <<>> /\ slack_log = FALSE
    /\ usage_file = NoUsageFile
    /\ github_log = FALSE /\ metrics = NoMetrics /\ eval_report = NoReport
    /\ ValidatorIdle /\ PolicyIdle /\ ProtocolIdle /\ ForkIdle /\ RunIdle /\ SessionIdle

\* one init_rpi_artifacts call
InitRpiArtifacts(forces) ==
    /\ rpi_calls < MaxInits
    /\ \E force \in forces :
          LET outputs == init_rpi_artifacts(research, plan, ledger, rpi_legacy, force)
          IN /\ research' = outputs.research
             /\ plan' = outputs.plan
             /\ ledger' = outputs.ledger
             /\ rpi_legacy' = outputs.legacy
             /\ rpi_outputs' = [status |-> "returned", force |-> force,
                                created |-> outputs.created, skipped |-> outputs.skipped]
    /\ rpi_before' = [research |-> research, plan |-> plan, ledger |-> ledger,
                      legacy |-> rpi_legacy]
    /\ rpi_calls' = rpi_calls + 1
    /\ UNCHANGED <<session_count, started, usage_file, trail, events, slack_log, github_log, metrics, eval_report>>
    /\ UNCHANGED <<secVars, polVars, rpcVars, forkVars, runVars, sessionVars>>

NextInit == InitRpiArtifacts(BOOLEAN)

SpecInit == InitInit /\ [][NextInit]_vars

\* the last init_rpi_artifacts call ran without force
InitializedWithoutForce == rpi_outputs.status = "returned" /\ ~rpi_outputs.force

\* research.md, plan.md and feature_list.json all existed before the last call
ArtifactsExisted ==
    rpi_before.research # "absent" /\ rpi_before.plan # "absent" /\ rpi_before.ledger.exists

\* C26: a call of init_rpi_artifacts without force on a repository whose
\* research, plan and feature list exist leaves the three files as they were
\* and reports all three as skipped, none as created; and after any call
\* without force a further call without force changes nothing, so any number
\* of calls leaves the artifacts one call leaves
C26_InitWithoutForceIsIdempotent ==
    InitializedWithoutForce =>
        /\ ArtifactsExisted =>
              /\ research = rpi_before.research
              /\ plan = rpi_before.plan
              /\ ledger = rpi_before.ledger
              /\ rpi_outputs.skipped = <<"research.md", "plan.md", "feature_list.json">>
              /\ rpi_outputs.created = <<>>
        /\ LET again == init_rpi_artifacts(research, plan, ledger, rpi_legacy, FALSE)
           IN /\ again.research = research
              /\ again.plan = plan
              /\ again.ledger = ledger
              /\ again.legacy = rpi_legacy
              /\ again.created = <<>>

\* a second call without force found a generated research file and a
\* generated feature list and skipped all three files
C26_Witness ==
    /\ InitializedWithoutForce
    /\ ArtifactsExisted
    /\ rpi_calls = 2
    /\ rpi_before.research = "generated"
    /\ rpi_before.ledger = LedgerOf(normalize_feature_payload(ListAB))
    /\ Len(rpi_outputs.skipped) = 3

\* the step in which provider.connect fails at the start of a session
ConnectFails == pc = "session" /\ outcome' = Raised("provider connection failed")

\* C27: if provider.connect fails at the start of a session the session is
\* aborted at once: the provider_connection_failed record is the only record
\* appended, so no turn is run and no action is evaluated or executed; the
\* ledger, the research and plan files, the audit logs and the persisted
\* session counter are unchanged; the failure leaves run_task, which does not
\* connect again.
C27_ConnectFailureAbortsSession ==
    /\ [][ConnectFails =>
            /\ events' = <<Event("provider_connection_failed", session_count + 1)>>
            /\ trail' = recorded_kinds
            /\ handler_calls' = <<>>
            /\ action_results' = <<>>
            /\ session_result' = NoSession
            /\ ledger' = ledger
            /\ research' = research
            /\ plan' = plan
            /\ slack_log' = slack_log
            /\ github_log' = github_log
            /\ session_count' = session_count
            /\ sessions' = sessions
            /\ pc' = "idle"]_vars
    /\ [](outcome = Raised("provider connection failed") =>
            /\ pc = "idle"
            /\ Len(events) = 1
            /\ events[1].type = "provider_connection_failed")

\* the connection failed at the start of the second session of the run
C27_Witness ==
    /\ outcome = Raised("provider connection failed")
    /\ session_count = 1
    /\ sessions = 1
    /\ events = <<Event("provider_connection_failed", 2)>>

\* run_task is between two sessions, or a fault has left it after at least
\* one session of the invocation was executed
AfterSession == sessions > 0 /\ (pc = "loop" \/ (pc = "idle" /\ outcome.status = "raised"))

\* C28: after every session of a run, the last session before a fault
\* propagates or before the loop continues included, metrics.json has been
\* written and its session count, done and total sub-task counts and stuck
\* counter are those of the run after that session.
C28_MetricsAfterEverySession ==
    AfterSession =>
        /\ metrics.written
        /\ metrics.sessions = sessions
        /\ metrics.phases_done = completion_counts(ledger)[1]
        /\ metrics.phases_total = completion_counts(ledger)[2]
        /\ metrics.stuck_count = stuck_count

(***************************************************************************)
(* run_turn against a peer that answers every request and sends one final  *)
(* agent message, in an item/completed notification or in its answer to    *)
(* thread/read; the message is any text put together from a few parts      *)
(***************************************************************************)
MaxParts == 5

TextParts == {FENCE, JSON_TAG, <<"{", "}">>, <<"}">>, <<"7">>, <<" ">>, <<"x">>}

RECURSIVE join_parts(_)
join_parts(parts) == IF parts = <<>> THEN <<>> ELSE Head(parts) \o join_parts(Tail(parts))

FinalMessages == {join_parts(parts) : parts \in UNION {[1..n -> TextParts] : n \in 0..MaxParts}}

AnswerWith(text) ==
    Payload("line", Absent, rpc_request.id, ResultObject("th1", JsonString("t1"), text), Absent,
            NoParams)

AgentMessage(text) ==
    Payload("line", "item/completed", Absent, NoResult, Absent,
            [turn |-> JsonAbsent, text |-> text, usage |-> Absent])

TurnCompleted ==
    Payload("line", "turn/completed", Absent, NoResult, Absent,
            [turn |-> JsonString("t1"), text |-> <<>>, usage |-> Absent])

AnsweringPeer ==
    IF rpc_stage = "turn_wait"
    THEN {TurnCompleted} \cup (IF rpc_last_agent_message = <<>>
                               THEN {AgentMessage(text) : text \in FinalMessages} ELSE {})
    ELSE IF rpc_stage = "thread_read" THEN {AnswerWith(text) : text \in FinalMessages}
    ELSE {AnswerWith(<<>>)}

NextFinalMessage == Connect \/ Dequeue(AnsweringPeer, ReadsAtOnce)

SpecFinalMessage == InitProtocol /\ [][NextFinalMessage]_vars

\* the text is a JSON object and nothing else
BareObject(text) == json_loads(strip(text)) = "object"

\* the text is one markdown code fence, with or without the json tag, around
\* a JSON object, and nothing else
FencedObject(text) ==
    \E opening \in {FENCE, FENCE \o JSON_TAG} :
        /\ startswith(strip(text), opening)
        /\ endswith(strip(text), FENCE)
        /\ Len(strip(text)) >= Len(opening) + Len(FENCE)
        /\ json_loads(SubSeq(strip(text), Len(opening) + 1, Len(strip(text)) - Len(FENCE)))
               = "object"

MalformedOutput ==
    {"codex protocol returned an empty final message",
     "codex protocol final message is not valid JSON",
     "codex protocol final message JSON must be an object"}

\* run_turn has returned or raised
TurnOver == rpc_stage \in {"returned", "failed"}

\* C29: the final agent message of a turn is accepted exactly when it is a
\* JSON object, bare or wrapped in exactly one markdown code fence; every
\* other message (empty, not JSON, a JSON value that is no object, an object
\* with other text around the fence) fails the turn as malformed output, and
\* the turn is not sent again.
C29_AcceptedExactlyWhenObject ==
    TurnOver =>
        /\ rpc_stage = "returned" <=>
              (BareObject(rpc_last_agent_message) \/ FencedObject(rpc_last_agent_message))
        /\ rpc_stage = "failed" =>
              rpc_outcome.status = "RuntimeError" /\ rpc_outcome.error \in MalformedOutput
        /\ rpc_request = NoRequest
        /\ rpc_next_id <= 4

(***************************************************************************)
(* The waits of the protocol client: one connection against a peer that    *)
(* may answer, stay silent, send notifications, stale responses and        *)
(* requests of its own, close its output or exit, and that reads its input *)
(* when it pleases.  Time passes: a deadline that is being waited for      *)
(* comes, and a client that can go on does.                                *)
(***************************************************************************)
StubbornPeer ==
    LET pending == IF rpc_request.id = None THEN "req-0" ELSE rpc_request.id
        stale == "req-" \o ToString(IF rpc_next_id > 0 THEN rpc_next_id - 1 ELSE 0)
    IN PeerRequests(pending)
       \cup {Payload("line", Absent, pending, ResultObject("th1", JsonString("t1"), ObjectText),
                     Absent, NoParams),
             Payload("line", Absent, stale, ResultObject("th1", JsonString("t1"), <<>>), Absent,
                     NoParams),
             Payload("line", "thread/tokenUsage/updated", Absent, NoResult, Absent, NoParams),
             AgentMessage(ObjectText),
             TurnCompleted,
             Payload("eof", Absent, Absent, NoResult, Absent, NoParams)}

\* the lines the child may have left unread
ReadsWhenItPleases == 0..rpc_pipe

NextDeadline ==
    \/ Connect
    \/ Dequeue(StubbornPeer, ReadsWhenItPleases)
    \/ Timeout
    \/ ChildExits
    \/ WriteCompletes

SpecDeadline ==
    InitProtocol /\ [][NextDeadline]_vars /\ WF_vars(Connect) /\ WF_vars(Timeout)

\* the client is inside request() or run_turn()
InCall == rpc_stage \in WaitingStages \cup {"sending"}

\* C30: every wait of the dispatch loop is bounded by a deadline, so every
\* request() call and every run_turn() call eventually ends, with a result
\* or with a fault, whatever the peer does.
C30_EveryCallTerminates == InCall ~> TurnOver

(***************************************************************************)
(* Notifications of a turn (under SpecProtocol)                            *)
(***************************************************************************)
\* C31: the agent message and the usage snapshot that a returned turn used
\* are those of the latest agent-message notification and of the latest
\* token-usage notification among the notifications that reached the
\* history between the sending of turn/start and the end of the turn, those
\* dequeued before the turn/start response included
C31_LatestNotificationsUsed ==
    rpc_stage = "returned" =>
        /\ rpc_heard.text # <<>> => rpc_last_agent_message = rpc_heard.text
        /\ rpc_heard.usage # NoUsage => rpc_token_usage = rpc_heard.usage

(***************************************************************************)
(* The network gate and the executor (under SpecSession)                   *)
(***************************************************************************)
\* the command of a run request contains one of the network tokens
NetworkCommand(request) ==
    /\ request.type = "run"
    /\ \E token \in NETWORK_TOKENS :
          contains(lower(str(Get(request.parameters, "cmd", <<>>))), token)

\* C32: under a contract with no_network = true, no run request whose cmd,
\* as handed to _execute_action, contains a network token is executed, also
\* when a configured runtime approver returned a parameter mutation
C32_NoNetworkCommandExecuted ==
    task_envelope # NoEnvelope /\ task_envelope.constraints.no_network =>
        \A k \in 1..Len(handler_calls) : ~NetworkCommand(handler_calls[k])

\* the command text that _execute_action hands to _run_shell_command
CommandOf(request) == strip(str(Get(request.parameters, "cmd", <<>>)))

Dangerous(cmd) == \E pattern \in DANGEROUS_RUN_PATTERNS : contains(lower(cmd), pattern)

\* the result says that a child process ran the command
Spawned(result) == result.output.kind = "run"

\* C33: for every run action a child process is spawned only after the
\* command text has passed first the dangerous-substring check and then the
\* Security Validator; a command that fails either check is never spawned
\* and its action result is not completed, and a command that fails both is
\* reported as a dangerous pattern
C33_SpawnOnlyAfterBothChecks ==
    InSession =>
        \A k \in 1..Len(handler_calls) :
            LET request == handler_calls[k]
                cmd == CommandOf(request)
                result == ResultOf(request.action_id)
            IN (/\ request.type = "run"
                /\ \E i \in 1..Len(action_results) :
                      action_results[i].action_id = request.action_id) =>
                   /\ Spawned(result) => ~Dangerous(cmd) /\ validate_command(cmd).allowed
                   /\ (Dangerous(cmd) \/ ~validate_command(cmd).allowed) =>
                          ~Spawned(result) /\ result.status = "failed"
                   /\ Dangerous(cmd) =>
                          result.error \in {"blocked dangerous command pattern",
                                            "unsupported run selector"}

\* a session in which one run action's command was stopped by the
\* dangerous-substring check, another's by the Security Validator alone, and
\* a third's child was spawned
C33_Witness ==
    /\ InSession
    /\ \E k \in 1..Len(handler_calls) :
          /\ handler_calls[k].type = "run"
          /\ ~Dangerous(CommandOf(handler_calls[k]))
          /\ ~validate_command(CommandOf(handler_calls[k])).allowed
          /\ \E i \in 1..Len(action_results) :
                /\ action_results[i].action_id = handler_calls[k].action_id
                /\ action_results[i].status = "failed"
    /\ \E i \in 1..Len(action_results) : Spawned(action_results[i])

(***************************************************************************)
(* The context rollover of run_task.  Sessions without action requests,    *)
(* whose responses report a remaining context below, at and above the      *)
(* threshold.                                                              *)
(***************************************************************************)
\* context_ratio of a provider response, in hundredths
ContextRatios == {30, 60, 100}

NextRollover ==
    \/ RunTask({"none"}, {MaxSessionsCap})
    \/ LoopHead
    \/ SessionStart
    \/ ProviderRun(Bootstraps, Continuations)
    \/ FinishSession(Claims, ContextRatios, NoTokens)
    \/ LoopTail
    \/ FinishRun({<<>>})

SpecRollover == Init /\ [][NextRollover]_vars

\* the context_rollover records of a trail
Rollovers(log) == SelectSeq(log, LAMBDA event : event.type = "context_rollover")

\* C34: after each session a context_rollover record is appended exactly
\* when the session's remaining-context ratio is at or below
\* context_threshold, and nothing else appends one; whether the loop goes
\* on or stops after the session depends on progress, completion and the
\* session cap only, and the call goes on either way
C34_RolloverIsInformational ==
    [][LET low == session_result.context_ratio <= context_threshold_default
           unchanged == session_result.done_count = before_done
           stuck == (IF unchanged THEN no_progress + 1 ELSE 0) >= 3
           done == /\ session_result.total_count > 0
                   /\ session_result.done_count = session_result.total_count
           capped == sessions + 1 >= max_sessions
       IN IF pc = "tail"
          THEN /\ Rollovers(events') =
                      Rollovers(events)
                      \o (IF low
                          THEN <<ContextRollover(session_result.session_number,
                                                 session_result.context_ratio,
                                                 context_threshold_default)>>
                          ELSE <<>>)
               /\ pc' = IF stuck \/ done \/ capped THEN "gate" ELSE "loop"
               /\ outcome' = outcome
          ELSE Len(Rollovers(events')) <= Len(Rollovers(events))]_vars

\* the loop went on to another session after a rollover was recorded for a
\* session whose ratio was exactly the threshold
C34_Witness ==
    /\ pc = "session"
    /\ Rollovers(events) # <<>>
    /\ Rollovers(events)[Len(Rollovers(events))].context_ratio = context_threshold_default

(***************************************************************************)
(* Session numbers of a run (under Spec)                                   *)
(***************************************************************************)
\* C35: within the event trail of a run the session numbers are unique and
\* consecutive: every session_started record carries the number of the
\* session_started record before it plus one, also when the earlier session
\* ended in a fault after it had started
C35_SessionNumbersConsecutive ==
    /\ started # <<>> => started[1] = 1
    /\ \A i \in 2..Len(started) : started[i] = started[i - 1] + 1

(***************************************************************************)
(* The reader thread and the queue.  The child writes lines to its stdout  *)
(* and may exit; _read_stdout moves them to the queue one by one; the      *)
(* client dequeues the head.                                               *)
(***************************************************************************)
\* what the child may write: the response to the pending request, a request
\* of its own, notifications, a blank line, a line that is not JSON and a
\* line that is JSON but no object
StreamLines ==
    LET pending == IF rpc_request.id = None THEN "req-0" ELSE rpc_request.id
    IN {Payload("line", Absent, pending, ResultObject("th1", JsonString("t1"), ObjectText),
                Absent, NoParams),
        Payload("line", "item/tool/call", "srv-1", NoResult, Absent, NoParams),
        AgentMessage(ObjectText),
        TurnCompleted,
        Payload("blank", Absent, Absent, NoResult, Absent, NoParams),
        Payload("scalar", Absent, Absent, NoResult, Absent, NoParams),
        Payload("malformed", Absent, Absent, NoResult, Absent, NoParams)}

\* queue.get returns the item at the head of the queue
Queued == IF rpc_queue = <<>> THEN {} ELSE {Head(rpc_queue)}

NextStream ==
    \/ Connect
    \/ ChildWrites(StreamLines)
    \/ ChildExits
    \/ ReadStdout
    \/ Dequeue(Queued, ReadsAtOnce)
    \/ Timeout

SpecStream == InitProtocol /\ [][NextStream]_vars

\* the call was left because the child had exited or closed its output
StreamClosed ==
    /\ rpc_stage = "failed"
    /\ rpc_outcome.error \in {"codex app-server stream ended unexpectedly",
                              "codex app-server exited early"}

\* a response to the request with this id
ResponseTo(payload, request_id) ==
    /\ payload.stream = "line"
    /\ payload.id = request_id
    /\ payload.result.kind # "absent" \/ payload.error # Absent

\* what the child has written and the client has not dequeued
Undelivered == rpc_stdout \o rpc_queue

\* C36: messages are dispatched one at a time, by a single consumer, in the
\* order the child emitted them, and a pending request fails because the
\* stream was closed only if the child's output ended with no response to
\* that request in it: a response the child wrote before it exited is
\* delivered, never left behind
C36_WrittenResponseIsDelivered ==
    /\ [][rpc_steps' > rpc_steps =>
             /\ rpc_steps' = rpc_steps + 1
             /\ rpc_last'.payload = Head(rpc_queue)
             /\ rpc_queue' = Tail(rpc_queue)]_vars
    /\ [][rpc_stdout # <<>> /\ rpc_stdout' = Tail(rpc_stdout) =>
             rpc_queue' \in {rpc_queue, Append(rpc_queue, Head(rpc_stdout))}]_vars
    /\ [](StreamClosed /\ rpc_last.request.id # None =>
             \A i \in 1..Len(Undelivered) :
                 ~ResponseTo(Undelivered[i], rpc_last.request.id))

(***************************************************************************)
(* Termination of run_task.  One invocation whose sessions carry no action *)
(* requests, under a max_sessions of zero and under one that leaves room   *)
(* for a session after three without progress.  The steps of the           *)
(* invocation are those of one thread: a step that can be taken is taken.  *)
(***************************************************************************)
MaxInvocationSessions == 4

InvocationCaps == {0, MaxInvocationSessions}

InvocationStep ==
    \/ LoopHead
    \/ SessionStart
    \/ ProviderRun(Bootstraps, Continuations)
    \/ FinishSession(Claims, FullContext, NoTokens)
    \/ LoopTail
    \/ FinishRun({<<>>})

NextTermination == RunTask({"none"}, InvocationCaps) \/ InvocationStep

SpecTermination == Init /\ [][NextTermination]_vars /\ WF_vars(InvocationStep)

\* max(1, max_sessions)
SessionLimit == IF max_sessions > 1 THEN max_sessions ELSE 1

\* C37: every run_task invocation terminates: it executes at most
\* max(1, max_sessions) sessions, starts no session once the ledger is fully
\* done or three consecutive sessions have made no progress, and ends by
\* returning or with the fault of a session
C37_RunTaskTerminates ==
    /\ [](sessions <= SessionLimit)
    /\ [](pc \in {"session", "provider", "actions", "tail"} => sessions < SessionLimit)
    /\ [](pc = "session" =>
             /\ ~all_completed(ledger)
             /\ TrailingUnchanged(progress_log) < 3)
    /\ (outcome.status = "running" ~> outcome.status \in {"returned", "raised"})

\* an invocation with max_sessions = 0 has returned after one session, and
\* so has one that stopped after three sessions without progress although
\* its max_sessions left room for a fourth
C37_Witness ==
    /\ pc = "idle"
    /\ outcome.status = "returned"
    /\ \/ max_sessions = 0 /\ sessions = 1
       \/ max_sessions = MaxInvocationSessions /\ sessions = 3 /\ stuck_count = 1

(***************************************************************************)
(* Completions of a session (under SpecSession)                            *)
(***************************************************************************)
\* C38: the accepted completions of a session are applied to the ledger
\* all-or-nothing: when an accepted sub-task id is not in the ledger, which
\* update_sub_task_status reports with KeyError, the session has changed no
\* sub-task status
C38_CompletionsAllOrNothing ==
    [][(pc = "actions" /\ outcome'.status = "raised" /\ outcome'.error = "KeyError") =>
           ledger' = ledger]_vars

(***************************************************************************)
(* The timeout of a run action: one iteration of the action loop of        *)
(* execute_session per contract, requested timeout, approver answer and    *)
(* behaviour of the child                                                  *)
(***************************************************************************)
\* max_runtime_sec of the contract: an int, 900 unless the task sets it
MaxRuntimes == {-3, 0, 1, 5, max_runtime_sec_default}

\* timeout_sec as the agent or the approver's mutation gives it
RequestedTimeouts ==
    {Seconds(-2), Seconds(0), Tenths(5), Seconds(1), Tenths(25), Seconds(3), Seconds(5),
     Tenths(59), Seconds(7), Seconds(1000), [text |-> "soon"]}

TimeoutEnvelopes ==
    {[build_task_envelope(1, FALSE) EXCEPT !.constraints.max_runtime_sec = runtime] :
     runtime \in MaxRuntimes}

TimeoutRequests ==
    {ActionRequest(<<1, 1>>, "run", "cmd", [cmd |-> ls_command])}
    \cup {ActionRequest(<<1, 1>>, "run", "cmd", [cmd |-> ls_command, timeout_sec |-> timeout]) :
          timeout \in RequestedTimeouts}

TimeoutAnswers ==
    {Answer("bool", TRUE, "", EmptyMap)}
    \cup {Answer("dict", TRUE, "edited", [timeout_sec |-> timeout]) :
          timeout \in {Seconds(0), Tenths(25), Seconds(1000)}}

InitTimeout ==
    /\ pol_envelope \in TimeoutEnvelopes
    /\ pol_request \in TimeoutRequests
    /\ pol_approver \in Approvers
    /\ pol_response \in TimeoutAnswers
    /\ pol_verdict = [approver_calls |-> 0]
    /\ pol_pc = "input"
    /\ ValidatorIdle /\ ProtocolIdle /\ UnitsIdle /\ FreshRepository /\ RunIdle /\ SessionIdle

\* one iteration of the action loop: policy_engine.evaluate, then
\* _execute_action with the contract's max_runtime_sec for an allowed request
HandleRun ==
    /\ pol_pc = "input"
    /\ \E env \in {AllOk, [AllOk EXCEPT !.proc = "timeout"]} :
          LET verdict == evaluate(pol_envelope, pol_request, pol_approver, pol_response)
              evaluated == [pol_request EXCEPT !.parameters = verdict.parameters]
              result == IF verdict.decision.allowed
                        THEN execute_action(evaluated,
                                            pol_envelope.constraints.max_runtime_sec, env)
                        ELSE ActionResult(pol_request.action_id, "denied",
                                          [kind |-> "none"], verdict.decision.reason)
          IN pol_verdict' = [decision |-> verdict.decision,
                             parameters |-> verdict.parameters,
                             approver_calls |-> verdict.approver_calls,
                             result |-> result]
    /\ pol_pc' = "done"
    /\ UNCHANGED <<pol_envelope, pol_request, pol_approver, pol_response, secVars, unitVars,
                   rpcVars, diskVars, runVars, sessionVars>>

NextTimeout == HandleRun

SpecTimeout == InitTimeout /\ [][NextTimeout]_vars

\* the child of the handled run action was spawned
RunSpawned == pol_pc = "done" /\ Spawned(pol_verdict.result)

\* the timeout the child ran under
AppliedTimeout == pol_verdict.result.output.timeout_sec

\* timeout_sec as requested, after the approver's mutation, in tenths;
\* max_runtime_sec where the parameters carry none
RequestedTenths ==
    IF "timeout_sec" \in DOMAIN pol_verdict.parameters
    THEN pol_verdict.parameters.timeout_sec.tenths
    ELSE 10 * pol_envelope.constraints.max_runtime_sec

\* max(1, min(requested, limit)), all in tenths
ClampedTenths(requested, limit) ==
    LET lesser == IF requested < limit THEN requested ELSE limit
    IN IF lesser > 10 THEN lesser ELSE 10

\* C39: the timeout applied to the child of a run action equals
\* max(1, min(requested timeout_sec, max_runtime_sec)); it is never below 1
\* and, when max_runtime_sec is at least 1, never above max_runtime_sec,
\* whatever the agent requests or the approver's mutation supplies
C39_TimeoutEqualsClampedRequest ==
    RunSpawned =>
        /\ 10 * AppliedTimeout =
               ClampedTenths(RequestedTenths, 10 * pol_envelope.constraints.max_runtime_sec)
        /\ AppliedTimeout >= 1
        /\ pol_envelope.constraints.max_runtime_sec >= 1 =>
               AppliedTimeout <= pol_envelope.constraints.max_runtime_sec

\* C39 (amended): the timeout applied to the child equals
\* max(1, min(int(requested timeout_sec), max_runtime_sec)), int dropping the
\* fraction of the request; it is never below 1 and, when max_runtime_sec is
\* at least 1, never above it; a timeout_sec that is no number fails the
\* action before a child is spawned
C39_TimeoutEqualsClampedInteger ==
    /\ RunSpawned =>
          /\ 10 * AppliedTimeout =
                 ClampedTenths(10 * int(Tenths(RequestedTenths)),
                               10 * pol_envelope.constraints.max_runtime_sec)
          /\ AppliedTimeout >= 1
          /\ pol_envelope.constraints.max_runtime_sec >= 1 =>
                 AppliedTimeout <= pol_envelope.constraints.max_runtime_sec
    /\ (/\ pol_pc = "done"
        /\ "timeout_sec" \in DOMAIN pol_verdict.parameters
        /\ ~IsNumber(pol_verdict.parameters.timeout_sec)) =>
           ~Spawned(pol_verdict.result) /\ pol_verdict.result.status = "failed"

\* the approver's mutation supplied 2.5 under the default limit and the
\* child ran under a timeout of 2
C39_Witness ==
    /\ RunSpawned
    /\ pol_verdict.decision.metadata.mutated_parameters = {"timeout_sec"}
    /\ pol_verdict.parameters.timeout_sec = Tenths(25)
    /\ pol_envelope.constraints.max_runtime_sec = max_runtime_sec_default
    /\ AppliedTimeout = 2

(***************************************************************************)
(* The usage record of a run.  Sessions whose responses report different   *)
(* token counts and carry at most one action request; a call that ended    *)
(* is followed by resume_task.                                             *)
(***************************************************************************)
\* usage of a provider response: nothing, all three counts, the total alone
TokenUsages ==
    {EmptyMap,
     [input_tokens |-> 3, output_tokens |-> 2, total_tokens |-> 5],
     [total_tokens |-> 9]}

NextUsage ==
    \/ RunTask({"none"}, {MaxSessionsCap})
    \/ ResumeTask({"none"}, {1})
    \/ LoopHead
    \/ SessionStart
    \/ ProviderRun(Bootstraps, Continuations)
    \/ ProcessAction(MaxRunActions, {RunLs}, {Answer("bool", TRUE, "", EmptyMap)}, {AllOk})
    \/ FinishSession(Claims, FullContext, TokenUsages)
    \/ LoopTail
    \/ FinishRun({<<>>})

SpecUsage == Init /\ [][NextUsage]_vars

RECURSIVE Total(_)
Total(numbers) == IF numbers = <<>> THEN 0 ELSE Head(numbers) + Total(Tail(numbers))

\* the sum of one token count over the per-session entries
TokenSum(entries, field) == Total([i \in 1..Len(entries) |-> entries[i].usage[field]])

\* C40: after any sequence of completed sessions of a run the totals of
\* usage.json equal the sums over its per-session entries: totals.actions is
\* the sum of the sessions' action counts and each token total the sum of
\* the sessions' token counts, and there is exactly one entry per completed
\* session
C40_UsageTotalsAreSums ==
    LET entries == usage_file.sessions IN
    /\ usage_file.totals.actions = Total([i \in 1..Len(entries) |-> entries[i].actions])
    /\ \A field \in {"input_tokens", "output_tokens", "total_tokens"} :
          usage_file.totals[field] = TokenSum(entries, field)
    /\ Len(entries) = session_count
    /\ \A i \in 1..Len(entries) : entries[i].session_number = i
    /\ usage_file.exists = (session_count > 0)

\* a resumed run with three completed sessions: one reported no usage, the
\* others different counts, and one of them executed an action
C40_Witness ==
    /\ resumes = 1
    /\ Len(usage_file.sessions) = 3
    /\ usage_file.totals.total_tokens = 14
    /\ usage_file.totals.input_tokens = 3
    /\ usage_file.totals.actions = 1
====
